---- MODULE Spec2Model ----
(***************************************************************************)
(* E-Rechnung app: the invoice form, its archive and license gates, the    *)
(* EN16931 validation engine and the XRechnung (UBL) and ZUGFeRD (CII)     *)
(* generators.                                                             *)
(*                                                                         *)
(* Strings are sequences of one-character strings, so that trim, the       *)
(* regular expressions and the formatting routines are computed on the     *)
(* characters.  Quantities and prices are kept as the typed decimal, in    *)
(* hundredths; the amounts computed from them are IEEE 754 binary64 values *)
(* computed with the rounding of each operation.                           *)
(***************************************************************************)
EXTENDS Integers, Sequences, FiniteSets, TLC

VARIABLES
    rechnung,            \* form state: document header
    verkaeufer,          \* form state: seller
    kaeufer,             \* form state: buyer
    positionen,          \* form state: line items
    documentType,        \* "invoice" | "offer"
    currentInvoiceId,    \* Some(id) of the archive record being edited, or None
    hasUnsavedChanges,
    showUnsavedWarning,  \* the archive record waiting for confirmation, or None
    attemptedExport,
    faelligkeitManuallySet,
    saveTimerArmed,      \* the debounced auto-save timer is running
    isGeneratingPdf,
    pdfJob,              \* the running PDF / ZUGFeRD export (its closure), or None
    validationResult,    \* result of the last runValidation, or None
    showValidationModal,
    toast,               \* the toast raised by the step just taken, or ""
    upgradeModal,        \* "", or the reason the upgrade modal is shown for
    isPro,               \* usePro: proState.isPro
    invoicesCreated,     \* usePro: usage.invoicesCreated
    invoices,            \* db.invoices: set of archive records
    numberSettings,      \* db.settings 'invoice-number-settings', or None
    offerSettings,       \* db.settings 'offer-number-settings', or None
    nextId,              \* source of fresh record identifiers
    lastExport,          \* the document the step just taken handed out, or None
    summen,              \* result of the last calculateSummen, or None
    xrechnungXML,        \* result of the last generateXRechnungXML, or None
    zugferdXML,          \* result of the last generateZUGFeRDXML, or None
    timeZone,            \* the time zone of the browser the page runs in
    inFlight             \* the asynchronous calls that wait at an await, oldest first

vars == << rechnung, verkaeufer, kaeufer, positionen, documentType,
           currentInvoiceId, hasUnsavedChanges, showUnsavedWarning,
           attemptedExport, faelligkeitManuallySet, saveTimerArmed,
           isGeneratingPdf, pdfJob, validationResult,
           showValidationModal, toast, upgradeModal, isPro, invoicesCreated,
           invoices, numberSettings, offerSettings, nextId, lastExport,
           summen, xrechnungXML, zugferdXML, timeZone, inFlight >>

\* An optional value is a sequence of at most one element
None == << >>

Some(x) == << x >>

(***************************************************************************)
(* Characters and strings                                                  *)
(***************************************************************************)

DigitChars == << "0", "1", "2", "3", "4", "5", "6", "7", "8", "9" >>

LowerChars == << "a", "b", "c", "d", "e", "f", "g", "h", "i", "j", "k", "l", "m",
                 "n", "o", "p", "q", "r", "s", "t", "u", "v", "w", "x", "y", "z" >>

UpperChars == << "A", "B", "C", "D", "E", "F", "G", "H", "I", "J", "K", "L", "M",
                 "N", "O", "P", "Q", "R", "S", "T", "U", "V", "W", "X", "Y", "Z" >>

Range(f) == { f[i] : i \in DOMAIN f }

IsDigit(c) == c \in Range(DigitChars)

IsUpper(c) == c \in Range(UpperChars)

IsLower(c) == c \in Range(LowerChars)

\* \s of the regular expressions
IsSpace(c) == c \in { " ", "\t", "\n" }

IsAlnum(c) == IsDigit(c) \/ IsUpper(c) \/ IsLower(c)

\* JavaScript truthiness of a string: only '' is falsy
Truthy(s) == s # << >>

RECURSIVE trimStart(_)
trimStart(s) ==
    IF s # << >> /\ IsSpace(Head(s)) THEN trimStart(Tail(s)) ELSE s

RECURSIVE trimEnd(_)
trimEnd(s) ==
    IF s # << >> /\ IsSpace(s[Len(s)]) THEN trimEnd(SubSeq(s, 1, Len(s) - 1)) ELSE s

\* String.prototype.trim
trim(s) == trimEnd(trimStart(s))

\* str.replace(/\s/g, '')
removeWhitespace(s) == SelectSeq(s, LAMBDA c : ~IsSpace(c))

upperOf(c) ==
    IF IsLower(c) THEN UpperChars[CHOOSE i \in DOMAIN LowerChars : LowerChars[i] = c]
    ELSE c

\* String.prototype.toUpperCase
toUpperCase(s) == [ i \in 1..Len(s) |-> upperOf(s[i]) ]

\* String.prototype.substring(from, to) with 0-based from, exclusive to
substring(s, from, to) ==
    SubSeq(s, from + 1, IF to < Len(s) THEN to ELSE Len(s))

startsWith(s, p) == Len(s) >= Len(p) /\ SubSeq(s, 1, Len(p)) = p

AllDigits(s) == \A i \in 1..Len(s) : IsDigit(s[i])

digitValue(c) == (CHOOSE i \in DOMAIN DigitChars : DigitChars[i] = c) - 1

\* decimal digits of a natural number, most significant first
RECURSIVE natToString(_)
natToString(n) ==
    IF n < 10 THEN << DigitChars[n + 1] >>
    ELSE natToString(n \div 10) \o << DigitChars[(n % 10) + 1] >>

RECURSIVE padStart(_, _, _)
padStart(s, width, c) ==
    IF Len(s) >= width THEN s ELSE padStart(<< c >> \o s, width, c)

RECURSIVE parseNat(_)
parseNat(s) ==
    IF s = << >> THEN 0
    ELSE parseNat(SubSeq(s, 1, Len(s) - 1)) * 10 + digitValue(s[Len(s)])

(***************************************************************************)
(* Validation helpers                                                      *)
(***************************************************************************)

\* /^\d{4}-\d{2}-\d{2}$/ and new Date(dateStr) is a date.  A day beyond the
\* length of its month (2026-02-30) is accepted by some engines and rejected
\* by others; no such date is among the inputs of this model.
isValidDate(dateStr) ==
    /\ Truthy(dateStr)
    /\ Len(dateStr) = 10
    /\ dateStr[5] = "-" /\ dateStr[8] = "-"
    /\ AllDigits(SubSeq(dateStr, 1, 4))
    /\ AllDigits(SubSeq(dateStr, 6, 7))
    /\ AllDigits(SubSeq(dateStr, 9, 10))
    /\ parseNat(SubSeq(dateStr, 6, 7)) \in 1..12
    /\ parseNat(SubSeq(dateStr, 9, 10)) \in 1..31

\* a postal code of digits of any length
isValidGermanPLZAnyLength(plz) ==
    LET t == trim(plz) IN Len(t) > 0 /\ AllDigits(t)

\* /^\d{5}$/.test(plz.trim())
isValidGermanPLZ(plz) ==
    LET t == trim(plz) IN Len(t) = 5 /\ AllDigits(t)

\* /^DE\d{9}$/ on the value without whitespace, in upper case
isValidVATId(vatId) ==
    LET cleaned == toUpperCase(removeWhitespace(vatId)) IN
    /\ Len(cleaned) = 11
    /\ startsWith(cleaned, << "D", "E" >>)
    /\ AllDigits(SubSeq(cleaned, 3, 11))

\* /^[A-Z]{2}\d{2}[A-Z0-9]{1,30}$/ on the value without whitespace, in upper
\* case; a German IBAN has exactly 22 characters
isValidIBAN(iban) ==
    LET cleaned == toUpperCase(removeWhitespace(iban)) IN
    /\ Len(cleaned) >= 5 /\ Len(cleaned) <= 34
    /\ IsUpper(cleaned[1]) /\ IsUpper(cleaned[2])
    /\ IsDigit(cleaned[3]) /\ IsDigit(cleaned[4])
    /\ \A i \in 5..Len(cleaned) : IsUpper(cleaned[i]) \/ IsDigit(cleaned[i])
    /\ ~(startsWith(cleaned, << "D", "E" >>) /\ Len(cleaned) # 22)

\* /^[^\s@]+@[^\s@]+\.[^\s@]+$/
isValidEmail(email) ==
    /\ \A i \in 1..Len(email) : ~IsSpace(email[i])
    /\ Cardinality({ i \in 1..Len(email) : email[i] = "@" }) = 1
    /\ LET at == CHOOSE i \in 1..Len(email) : email[i] = "@" IN
       /\ at > 1
       /\ \E d \in (at + 2)..(Len(email) - 1) : email[d] = "."

\* /^[\dA-Za-z]+-[\dA-Za-z]+([-][\dA-Za-z]+)*$/ on the trimmed value, which
\* must have at least 5 characters
isValidLeitwegId(leitwegId) ==
    LET cleaned == trim(leitwegId) IN
    /\ Len(cleaned) >= 5
    /\ \A i \in 1..Len(cleaned) : IsAlnum(cleaned[i]) \/ cleaned[i] = "-"
    /\ \E i \in 1..Len(cleaned) : cleaned[i] = "-"
    /\ cleaned[1] # "-" /\ cleaned[Len(cleaned)] # "-"
    /\ \A i \in 1..(Len(cleaned) - 1) : ~(cleaned[i] = "-" /\ cleaned[i + 1] = "-")

\* only the empty value counts as missing
IsBlankOnlyIfEmpty(s) == ~Truthy(s)

\* !s || s.trim() === ''
IsBlank(s) == ~Truthy(s) \/ trim(s) = << >>

(***************************************************************************)
(* JavaScript numbers                                                      *)
(*                                                                         *)
(* Quantities, prices and amounts are IEEE 754 binary64 values.  A value   *)
(* is modelled exactly, as [ m, e ] standing for m * 2^e, with the         *)
(* significand m a natural number of 53 bits held in limbs of 15 bits      *)
(* (least significant limb first), or m = << >> for zero.  Every           *)
(* arithmetic operation rounds its exact result to the nearest such value, *)
(* ties to the even significand.  All amounts that enter the arithmetic    *)
(* are positive: lines with a quantity or price <= 0 are filtered before.  *)
(* An operand is evaluated once, before the operation (x \in { a } binds   *)
(* its value), as JavaScript evaluates the operands of an expression.      *)
(***************************************************************************)

Limb == 2 ^ 15

RECURSIVE BFromNat(_)
BFromNat(n) == IF n = 0 THEN << >> ELSE << n % Limb >> \o BFromNat(n \div Limb)

RECURSIVE BToNat(_)
BToNat(a) == IF a = << >> THEN 0 ELSE a[1] + Limb * BToNat(Tail(a))

RECURSIVE BAddC(_, _, _)
BAddC(a, b, c) ==
    IF a = << >> /\ b = << >> THEN (IF c = 0 THEN << >> ELSE << c >>)
    ELSE LET x == (IF a = << >> THEN 0 ELSE a[1]) + (IF b = << >> THEN 0 ELSE b[1]) + c IN
         << x % Limb >> \o BAddC(IF a = << >> THEN a ELSE Tail(a),
                                 IF b = << >> THEN b ELSE Tail(b), x \div Limb)

BAdd(a, b) == BAddC(a, b, 0)

\* a * k + c for a natural k < 2^15
RECURSIVE BMulSmall(_, _, _)
BMulSmall(a, k, c) ==
    IF a = << >> THEN (IF c = 0 THEN << >> ELSE << c >>)
    ELSE LET x == a[1] * k + c IN << x % Limb >> \o BMulSmall(Tail(a), k, x \div Limb)

RECURSIVE BMul(_, _)
BMul(a, b) ==
    IF a = << >> \/ b = << >> THEN << >>
    ELSE BAdd(BMulSmall(a, b[1], 0),
              LET rest == BMul(a, Tail(b)) IN
              IF rest = << >> THEN rest ELSE << 0 >> \o rest)

\* quotient and remainder of a by a natural d < 2^15
RECURSIVE BDivSmall(_, _)
BDivSmall(a, d) ==
    IF a = << >> THEN [ q |-> << >>, r |-> 0 ]
    ELSE LET h == BDivSmall(Tail(a), d)
             x == h.r * Limb + a[1]
         IN [ q |-> IF h.q = << >> /\ x \div d = 0 THEN << >> ELSE << x \div d >> \o h.q,
              r |-> x % d ]

BShl(a, n) ==
    IF a = << >> THEN a
    ELSE [ i \in 1 .. (n \div 15) |-> 0 ] \o BMulSmall(a, 2 ^ (n % 15), 0)

BShr(a, n) ==
    IF Len(a) <= n \div 15 THEN << >>
    ELSE LET rest == SubSeq(a, (n \div 15) + 1, Len(a)) IN
         IF n % 15 = 0 THEN rest ELSE BDivSmall(rest, 2 ^ (n % 15)).q

BIsOdd(a) == a # << >> /\ a[1] % 2 = 1

RECURSIVE BitLenSmall(_)
BitLenSmall(x) == IF x = 0 THEN 0 ELSE 1 + BitLenSmall(x \div 2)

BitLen(a) == IF a = << >> THEN 0 ELSE 15 * (Len(a) - 1) + BitLenSmall(a[Len(a)])

\* a < b
RECURSIVE BLess(_, _)
BLess(a, b) ==
    IF Len(a) # Len(b) THEN Len(a) < Len(b)
    ELSE IF a = << >> THEN FALSE
    ELSE IF a[Len(a)] # b[Len(b)] THEN a[Len(a)] < b[Len(b)]
    ELSE BLess(SubSeq(a, 1, Len(a) - 1), SubSeq(b, 1, Len(b) - 1))

FZero == [ m |-> << >>, e |-> 0 ]

\* the binary64 value nearest to M * 2^E
FRoundBits(M, E, L) ==
    IF L = 0 THEN FZero
    ELSE IF L <= 53 THEN [ m |-> BShl(M, 53 - L), e |-> E - (53 - L) ]
    ELSE LET s == L - 53 IN
         CHOOSE rounded \in
           { IF BitLen(qq) = 54 THEN [ m |-> BShr(qq, 1), e |-> E + s + 1 ]
             ELSE [ m |-> qq, e |-> E + s ] :
             qq \in { IF BIsOdd(q2) /\ (BIsOdd(BShr(q2, 1)) \/ BShl(q2, s - 1) # M)
                      THEN BAdd(BShr(q2, 1), << 1 >>) ELSE BShr(q2, 1) :
                      q2 \in { BShr(M, s - 1) } } } : TRUE

FRound(M, E) ==
    CHOOSE rounded \in { FRoundBits(x, E, BitLen(x)) : x \in { M } } : TRUE

\* a * b
FMul(a, b) ==
    CHOOSE product \in { FRound(BMul(x.m, y.m), x.e + y.e) : x \in { a }, y \in { b } } : TRUE

\* a + b
FAdd(a, b) ==
    CHOOSE sum \in
      { IF x.m = << >> THEN y
        ELSE IF y.m = << >> THEN x
        ELSE LET e == IF x.e < y.e THEN x.e ELSE y.e IN
             FRound(BAdd(BShl(x.m, x.e - e), BShl(y.m, y.e - e)), e) :
        x \in { a }, y \in { b } } : TRUE

\* a < b
FLess(a, b) ==
    \E x \in { a }, y \in { b } :
        IF y.m = << >> THEN FALSE
        ELSE IF x.m = << >> THEN TRUE
        ELSE IF x.e # y.e THEN x.e < y.e
        ELSE BLess(x.m, y.m)

\* the number a decimal literal or a parsed input denotes: n / d, for
\* naturals n and d with 0 < d < 2^15
FDecimal(n, d) ==
    CHOOSE nearest \in
      { FRound(BAddC(BShl(h.q, 1), << >>, IF h.r = 0 THEN 0 ELSE 1), 0 - 76) :
        h \in { BDivSmall(BShl(BFromNat(n), 75), d) } } : TRUE

\* the whole number of cents nearest to a, half a cent rounding up
\* (Number.prototype.toFixed(2) decides on the exact value of the number)
FCents(a) ==
    CHOOSE cents \in
      { IF x.m = << >> THEN 0
        ELSE IF x.e >= 0 THEN BToNat(BShl(BMulSmall(x.m, 100, 0), x.e))
        ELSE BToNat(BShr(BAdd(BMulSmall(x.m, 200, 0), BShl(<< 1 >>, 0 - x.e)), 1 - x.e)) :
        x \in { a } } : TRUE

(***************************************************************************)
(* Money                                                                   *)
(***************************************************************************)

\* the number a quantity or price field holds: the form keeps the typed
\* decimal, here in hundredths, as the nearest number
Num(hundredths) == FDecimal(hundredths, 100)

\* pos.menge * pos.preis
betrag(pos) == FMul(Num(pos.menge), Num(pos.preis))

\* the text of a number of cents with 2 decimals
formatCents(c) ==
    CHOOSE text \in
      { natToString(n \div 100) \o << "." >> \o padStart(natToString(n % 100), 2, "0") :
        n \in { c } } : TRUE

\* Number.prototype.toFixed(2)
toFixed2(x) == formatCents(FCents(x))

\* pos.menge.toFixed(2) and pos.preis.toFixed(2)
mengeToFixed2(menge) == toFixed2(Num(menge))

preisToFixed2(preis) == toFixed2(Num(preis))

\* the literals 0.19, 0.07 and 0.06
Rate19 == FDecimal(19, 100)

Rate7 == FDecimal(7, 100)

Rate6 == FDecimal(6, 100)

\* `${pos.ust}`
numberToString(n) ==
    IF n >= 0 THEN natToString(n) ELSE << "-" >> \o natToString(0 - n)

(***************************************************************************)
(* Totals shown in the form                                                *)
(***************************************************************************)

RECURSIVE calculateSummenFrom(_, _)
calculateSummenFrom(acc, ps) ==
    IF ps = << >> THEN acc
    ELSE CHOOSE sums \in
           { calculateSummenFrom(
                IF Truthy(pos.bezeichnung) /\ pos.menge > 0 /\ pos.preis > 0
                THEN [ netto    |-> FAdd(sofar.netto, betrag(pos)),
                       lohn     |-> IF pos.typ = "L" THEN FAdd(sofar.lohn, betrag(pos)) ELSE sofar.lohn,
                       material |-> IF pos.typ = "M" THEN FAdd(sofar.material, betrag(pos))
                                    ELSE sofar.material,
                       ust19    |-> IF pos.ust = 19 THEN FAdd(sofar.ust19, FMul(betrag(pos), Rate19))
                                    ELSE sofar.ust19,
                       ust7     |-> IF pos.ust = 7 THEN FAdd(sofar.ust7, FMul(betrag(pos), Rate7))
                                    ELSE sofar.ust7 ]
                ELSE sofar,
                Tail(ps)) :
             sofar \in { acc }, pos \in { Head(ps) } } : TRUE

calculateSummen(ps) ==
    calculateSummenFrom([ netto |-> FZero, lohn |-> FZero, material |-> FZero,
                          ust19 |-> FZero, ust7 |-> FZero ], ps)

\* const brutto = summen.netto + summen.ust19 + summen.ust7
bruttoOf(s) == FAdd(FAdd(s.netto, s.ust19), s.ust7)

(***************************************************************************)
(* EINHEIT_MAP                                                             *)
(***************************************************************************)

EINHEIT_OPTIONS == { "Std", "Stk", "m", "m2", "m3", "kg", "Tag", "Ltr", "psch" }

EINHEIT_MAP ==
    [ e \in EINHEIT_OPTIONS |->
        CASE e = "Std"  -> "HUR"
          [] e = "Stk"  -> "H87"
          [] e = "m"    -> "MTR"
          [] e = "m2"   -> "MTK"
          [] e = "m3"   -> "MTQ"
          [] e = "kg"   -> "KGM"
          [] e = "Tag"  -> "DAY"
          [] e = "Ltr"  -> "LTR"
          [] e = "psch" -> "LS" ]

\* EINHEIT_MAP[pos.einheit] || 'H87'
unitCode(einheit) ==
    IF einheit \in DOMAIN EINHEIT_MAP THEN EINHEIT_MAP[einheit] ELSE "H87"

\* str.replace(/c/g, rep) for a single character c
RECURSIVE replaceAll(_, _, _)
replaceAll(str, c, rep) ==
    IF str = << >> THEN << >>
    ELSE (IF Head(str) = c THEN rep ELSE << Head(str) >>) \o replaceAll(Tail(str), c, rep)

\* escapeXML with & replaced after the other four characters
escapeXMLAmpersandLast(str) ==
    replaceAll(
      replaceAll(
        replaceAll(
          replaceAll(
            replaceAll(str, "<", << "&", "l", "t", ";" >>),
            ">", << "&", "g", "t", ";" >>),
          "\"", << "&", "q", "u", "o", "t", ";" >>),
        "'", << "&", "a", "p", "o", "s", ";" >>),
      "&", << "&", "a", "m", "p", ";" >>)

\* & is replaced first, then < > " '
escapeXML(str) ==
    replaceAll(
      replaceAll(
        replaceAll(
          replaceAll(
            replaceAll(str, "&", << "&", "a", "m", "p", ";" >>),
            "<", << "&", "l", "t", ";" >>),
          ">", << "&", "g", "t", ";" >>),
        "\"", << "&", "q", "u", "o", "t", ";" >>),
      "'", << "&", "a", "p", "o", "s", ";" >>)

(***************************************************************************)
(* XRechnung (UBL) generator.  The document is a record of its elements;   *)
(* an optional element is a sequence of at most one element, a repeated    *)
(* element a sequence, an element's text a string.                         *)
(***************************************************************************)

\* a first loop that adds up lines without a description as well
RECURSIVE xrechnungNettoAnyDescription(_, _)
xrechnungNettoAnyDescription(acc, ps) ==
    IF ps = << >> THEN acc
    ELSE CHOOSE sums \in
           { xrechnungNettoAnyDescription(
                IF pos.menge > 0 /\ pos.preis > 0
                THEN IF pos.ust = 19 THEN [ sofar EXCEPT !.netto19 = FAdd(@, betrag(pos)) ]
                     ELSE IF pos.ust = 7 THEN [ sofar EXCEPT !.netto7 = FAdd(@, betrag(pos)) ]
                     ELSE [ sofar EXCEPT !.netto0 = FAdd(@, betrag(pos)) ]
                ELSE sofar,
                Tail(ps)) :
             sofar \in { acc }, pos \in { Head(ps) } } : TRUE

\* the first loop of generateXRechnungXML: net amount per tax bucket
RECURSIVE xrechnungNetto(_, _)
xrechnungNetto(acc, ps) ==
    IF ps = << >> THEN acc
    ELSE CHOOSE sums \in
           { xrechnungNetto(
                IF Truthy(pos.bezeichnung) /\ pos.menge > 0 /\ pos.preis > 0
                THEN IF pos.ust = 19 THEN [ sofar EXCEPT !.netto19 = FAdd(@, betrag(pos)) ]
                     ELSE IF pos.ust = 7 THEN [ sofar EXCEPT !.netto7 = FAdd(@, betrag(pos)) ]
                     ELSE [ sofar EXCEPT !.netto0 = FAdd(@, betrag(pos)) ]
                ELSE sofar,
                Tail(ps)) :
             sofar \in { acc }, pos \in { Head(ps) } } : TRUE

\* positionenXML numbered by the place in the stored list
RECURSIVE xrechnungLinesByListIndex(_, _)
xrechnungLinesByListIndex(posNr, ps) ==
    IF ps = << >> THEN << >>
    ELSE LET pos == Head(ps) IN
         IF Truthy(pos.bezeichnung) /\ pos.menge > 0 /\ pos.preis > 0
         THEN << [ ID                    |-> natToString(posNr + 1),
                   unitCode              |-> unitCode(pos.einheit),
                   InvoicedQuantity      |-> mengeToFixed2(pos.menge),
                   LineExtensionAmount   |-> toFixed2(betrag(pos)),
                   Name                  |-> escapeXML(pos.bezeichnung),
                   ClassifiedTaxCategory |-> [ ID |-> "S", Percent |-> numberToString(pos.ust) ],
                   PriceAmount           |-> preisToFixed2(pos.preis) ] >>
              \o xrechnungLinesByListIndex(posNr + 1, Tail(ps))
         ELSE xrechnungLinesByListIndex(posNr + 1, Tail(ps))

\* the second loop of generateXRechnungXML: positionenXML
RECURSIVE xrechnungLines(_, _)
xrechnungLines(posNr, ps) ==
    IF ps = << >> THEN << >>
    ELSE LET pos == Head(ps) IN
         IF Truthy(pos.bezeichnung) /\ pos.menge > 0 /\ pos.preis > 0
         THEN << [ ID                    |-> natToString(posNr + 1),
                   unitCode              |-> unitCode(pos.einheit),
                   InvoicedQuantity      |-> mengeToFixed2(pos.menge),
                   LineExtensionAmount   |-> toFixed2(betrag(pos)),
                   Name                  |-> escapeXML(pos.bezeichnung),
                   ClassifiedTaxCategory |-> [ ID |-> "S", Percent |-> numberToString(pos.ust) ],
                   PriceAmount           |-> preisToFixed2(pos.preis) ] >>
              \o xrechnungLines(posNr + 1, Tail(ps))
         ELSE xrechnungLines(posNr, Tail(ps))

xrechnungTaxSubtotals(netto19, netto7, ust19, ust7) ==
    (IF FLess(FZero, netto19)
     THEN << [ TaxableAmount |-> toFixed2(netto19), TaxAmount |-> toFixed2(ust19),
               ID |-> "S", Percent |-> << "1", "9" >> ] >>
     ELSE << >>)
    \o
    (IF FLess(FZero, netto7)
     THEN << [ TaxableAmount |-> toFixed2(netto7), TaxAmount |-> toFixed2(ust7),
               ID |-> "S", Percent |-> << "7" >> ] >>
     ELSE << >>)

\* totals whose gross amount leaves out the 7 % tax
xrechnungTotalsWithoutUst7(ps) ==
    CHOOSE totals \in
      { LET nettoGesamt == FAdd(FAdd(n.netto19, n.netto7), n.netto0)
            ust19       == FMul(n.netto19, Rate19)
            ust7        == FMul(n.netto7, Rate7)
        IN [ netto19 |-> n.netto19, netto7 |-> n.netto7, netto0 |-> n.netto0,
             nettoGesamt |-> nettoGesamt, ust19 |-> ust19, ust7 |-> ust7,
             brutto |-> FAdd(nettoGesamt, ust19) ] :
        n \in { xrechnungNetto([ netto19 |-> FZero, netto7 |-> FZero, netto0 |-> FZero ],
                                ps) } } : TRUE

\* nettoGesamt, ust19, ust7 and brutto of generateXRechnungXML
xrechnungTotals(ps) ==
    CHOOSE totals \in
      { LET nettoGesamt == FAdd(FAdd(n.netto19, n.netto7), n.netto0)
            ust19       == FMul(n.netto19, Rate19)
            ust7        == FMul(n.netto7, Rate7)
        IN [ netto19 |-> n.netto19, netto7 |-> n.netto7, netto0 |-> n.netto0,
             nettoGesamt |-> nettoGesamt, ust19 |-> ust19, ust7 |-> ust7,
             brutto |-> FAdd(FAdd(nettoGesamt, ust19), ust7) ] :
        n \in { xrechnungNetto([ netto19 |-> FZero, netto7 |-> FZero, netto0 |-> FZero ],
                               ps) } } : TRUE

generateXRechnungXML(r, v, k, ps) ==
    CHOOSE document \in
      { LET nettoGesamt == n.nettoGesamt
            ust19       == n.ust19
            ust7        == n.ust7
            brutto      == n.brutto
        IN
        [ ID               |-> escapeXML(r.nummer),
          IssueDate        |-> r.datum,
          DueDate          |-> IF Truthy(r.faelligkeit) THEN << r.faelligkeit >> ELSE << >>,
          InvoiceTypeCode  |-> substring(r.art, 0, 3),
          DocumentCurrencyCode |-> "EUR",
          BuyerReference   |-> IF Truthy(r.leitwegId) THEN r.leitwegId ELSE << "n", "/", "a" >>,
          AccountingSupplierParty |->
            [ StreetName       |-> escapeXML(v.strasse),
              CityName         |-> escapeXML(v.ort),
              PostalZone       |-> escapeXML(v.plz),
              Country          |-> "DE",
              PartyTaxScheme   |-> IF Truthy(v.ustId) THEN << escapeXML(v.ustId) >> ELSE << >>,
              RegistrationName |-> escapeXML(v.firma) ],
          AccountingCustomerParty |->
            [ StreetName       |-> escapeXML(k.strasse),
              CityName         |-> escapeXML(k.ort),
              PostalZone       |-> escapeXML(k.plz),
              Country          |-> "DE",
              PartyTaxScheme   |-> IF Truthy(k.ustId) THEN << escapeXML(k.ustId) >> ELSE << >>,
              RegistrationName |-> escapeXML(k.firma) ],
          PaymentMeans     |-> IF Truthy(v.iban)
                               THEN << [ PaymentMeansCode |-> "58", ID |-> removeWhitespace(v.iban) ] >>
                               ELSE << >>,
          TaxTotal         |-> [ TaxAmount    |-> toFixed2(FAdd(ust19, ust7)),
                                 TaxSubtotals |-> xrechnungTaxSubtotals(n.netto19, n.netto7, ust19, ust7) ],
          LegalMonetaryTotal |->
            [ LineExtensionAmount |-> toFixed2(nettoGesamt),
              TaxExclusiveAmount  |-> toFixed2(nettoGesamt),
              TaxInclusiveAmount  |-> toFixed2(brutto),
              PayableAmount       |-> toFixed2(brutto) ],
          InvoiceLines     |-> xrechnungLines(0, ps) ] :
        n \in { xrechnungTotals(ps) } } : TRUE

(***************************************************************************)
(* ZUGFeRD (CII) generator                                                 *)
(***************************************************************************)

\* the first loop of generateZUGFeRDXML: net amount per tax bucket
RECURSIVE zugferdNetto(_, _)
zugferdNetto(acc, ps) ==
    IF ps = << >> THEN acc
    ELSE CHOOSE sums \in
           { zugferdNetto(
                IF Truthy(pos.bezeichnung) /\ pos.menge > 0 /\ pos.preis > 0
                THEN IF pos.ust = 19 THEN [ sofar EXCEPT !.netto19 = FAdd(@, betrag(pos)) ]
                     ELSE IF pos.ust = 7 THEN [ sofar EXCEPT !.netto7 = FAdd(@, betrag(pos)) ]
                     ELSE [ sofar EXCEPT !.netto0 = FAdd(@, betrag(pos)) ]
                ELSE sofar,
                Tail(ps)) :
             sofar \in { acc }, pos \in { Head(ps) } } : TRUE

\* const taxCategoryCode = pos.ust === 0 ? 'Z' : 'S'
taxCategoryCode(ust) == IF ust = 0 THEN "Z" ELSE "S"

\* the second loop of generateZUGFeRDXML: lineItems
RECURSIVE zugferdLineItems(_, _)
zugferdLineItems(posNr, ps) ==
    IF ps = << >> THEN << >>
    ELSE LET pos == Head(ps) IN
         IF Truthy(pos.bezeichnung) /\ pos.menge > 0 /\ pos.preis > 0
         THEN << [ LineID          |-> natToString(posNr + 1),
                   Name            |-> escapeXML(pos.bezeichnung),
                   ChargeAmount    |-> preisToFixed2(pos.preis),
                   unitCode        |-> unitCode(pos.einheit),
                   BilledQuantity  |-> mengeToFixed2(pos.menge),
                   ApplicableTradeTax |->
                     [ TypeCode |-> "VAT", CategoryCode |-> taxCategoryCode(pos.ust),
                       RateApplicablePercent |-> numberToString(pos.ust) ],
                   LineTotalAmount |-> toFixed2(betrag(pos)) ] >>
              \o zugferdLineItems(posNr + 1, Tail(ps))
         ELSE zugferdLineItems(posNr, Tail(ps))

zugferdTaxBreakdown(netto19, netto7, netto0, ust19, ust7) ==
    (IF FLess(FZero, netto19)
     THEN << [ CalculatedAmount |-> toFixed2(ust19), BasisAmount |-> toFixed2(netto19),
               CategoryCode |-> "S", RateApplicablePercent |-> << "1", "9" >> ] >>
     ELSE << >>)
    \o
    (IF FLess(FZero, netto7)
     THEN << [ CalculatedAmount |-> toFixed2(ust7), BasisAmount |-> toFixed2(netto7),
               CategoryCode |-> "S", RateApplicablePercent |-> << "7" >> ] >>
     ELSE << >>)
    \o
    (IF FLess(FZero, netto0)
     THEN << [ CalculatedAmount |-> << "0", ".", "0", "0" >>, BasisAmount |-> toFixed2(netto0),
               CategoryCode |-> "Z", RateApplicablePercent |-> << "0" >> ] >>
     ELSE << >>)

\* dateStr.replace(/-/g, '')
formatCIIDate(dateStr) == SelectSeq(dateStr, LAMBDA c : c # "-")

\* nettoGesamt, ust19, ust7 and brutto of generateZUGFeRDXML
zugferdTotals(ps) ==
    CHOOSE totals \in
      { LET nettoGesamt == FAdd(FAdd(n.netto19, n.netto7), n.netto0)
            ust19       == FMul(n.netto19, Rate19)
            ust7        == FMul(n.netto7, Rate7)
        IN [ netto19 |-> n.netto19, netto7 |-> n.netto7, netto0 |-> n.netto0,
             nettoGesamt |-> nettoGesamt, ust19 |-> ust19, ust7 |-> ust7,
             brutto |-> FAdd(FAdd(nettoGesamt, ust19), ust7) ] :
        n \in { zugferdNetto([ netto19 |-> FZero, netto7 |-> FZero, netto0 |-> FZero ],
                             ps) } } : TRUE

generateZUGFeRDXML(r, v, k, ps) ==
    CHOOSE document \in
      { LET nettoGesamt == n.nettoGesamt
            ust19       == n.ust19
            ust7        == n.ust7
            brutto      == n.brutto
            typeCode    == IF Truthy(substring(r.art, 0, 3)) THEN substring(r.art, 0, 3)
                           ELSE << "3", "8", "0" >>
        IN
        [ GuidelineID   |-> "urn:cen.eu:en16931:2017#conformant#urn:factur-x.eu:1p0:comfort",
          ID            |-> escapeXML(r.nummer),
          TypeCode      |-> typeCode,
          IssueDateTime |-> formatCIIDate(r.datum),
          LineItems     |-> zugferdLineItems(0, ps),
          BuyerReference |-> IF Truthy(r.leitwegId) THEN << escapeXML(r.leitwegId) >> ELSE << >>,
          SellerTradeParty |->
            [ Name         |-> escapeXML(v.firma),
              PostcodeCode |-> escapeXML(v.plz),
              LineOne      |-> escapeXML(v.strasse),
              CityName     |-> escapeXML(v.ort),
              CountryID    |-> "DE",
              Email        |-> IF Truthy(v.email) THEN << escapeXML(v.email) >> ELSE << >>,
              TaxRegistrationVA |-> IF Truthy(v.ustId) THEN << escapeXML(v.ustId) >> ELSE << >>,
              TaxRegistrationFC |-> IF Truthy(v.steuernummer) THEN << escapeXML(v.steuernummer) >>
                                    ELSE << >> ],
          BuyerTradeParty |->
            [ Name         |-> escapeXML(k.firma),
              PostcodeCode |-> escapeXML(k.plz),
              LineOne      |-> escapeXML(k.strasse),
              CityName     |-> escapeXML(k.ort),
              CountryID    |-> "DE",
              Email        |-> IF Truthy(k.email) THEN << escapeXML(k.email) >> ELSE << >>,
              TaxRegistrationVA |-> IF Truthy(k.ustId) THEN << escapeXML(k.ustId) >> ELSE << >> ],
          BuyerOrderReferencedDocument |->
            IF Truthy(r.bestellnummer) THEN << escapeXML(r.bestellnummer) >> ELSE << >>,
          ActualDeliverySupplyChainEvent |->
            IF Truthy(r.leistungszeitraum) THEN << formatCIIDate(r.datum) >> ELSE << >>,
          InvoiceCurrencyCode |-> "EUR",
          PaymentMeans  |->
            IF Truthy(v.iban)
            THEN << [ TypeCode |-> "58",
                      IBANID   |-> removeWhitespace(v.iban),
                      BICID    |-> IF Truthy(v.bic) THEN << removeWhitespace(v.bic) >> ELSE << >> ] >>
            ELSE << >>,
          ApplicableTradeTax |-> zugferdTaxBreakdown(n.netto19, n.netto7, n.netto0, ust19, ust7),
          DueDateDateTime |-> IF Truthy(r.faelligkeit) THEN << formatCIIDate(r.faelligkeit) >>
                              ELSE << >>,
          MonetarySummation |->
            [ LineTotalAmount     |-> toFixed2(nettoGesamt),
              TaxBasisTotalAmount |-> toFixed2(nettoGesamt),
              TaxTotalAmount      |-> toFixed2(FAdd(ust19, ust7)),
              GrandTotalAmount    |-> toFixed2(brutto),
              DuePayableAmount    |-> toFixed2(brutto) ] ] :
        n \in { zugferdTotals(ps) } } : TRUE

(***************************************************************************)
(* EN16931 validation engine                                               *)
(***************************************************************************)

Msg(code, field, severity) == [ code |-> code, field |-> field, severity |-> severity ]

\* if (cond) list.push(message)
PushIf(cond, msg) == IF cond THEN << msg >> ELSE << >>

\* validation of every line, complete or not
validPositionsOfEveryLine(ps) == ps

\* positionen.filter(p => p.bezeichnung && p.menge > 0 && p.preis > 0)
validPositionsOf(ps) ==
    SelectSeq(ps, LAMBDA p : Truthy(p.bezeichnung) /\ p.menge > 0 /\ p.preis > 0)

positionField(index, name) == "positionen." \o ToString(index) \o "." \o name

\* the errors pushed by validPositions.forEach, index being 0-based
RECURSIVE positionErrors(_, _)
positionErrors(vps, index) ==
    IF vps = << >> THEN << >>
    ELSE LET pos == Head(vps) IN
         PushIf(pos.menge <= 0, Msg("BR-22", positionField(index, "menge"), "error"))
         \o PushIf(pos.preis < 0, Msg("BR-26", positionField(index, "preis"), "error"))
         \o PushIf(IsBlank(pos.bezeichnung),
                   Msg("BR-25", positionField(index, "bezeichnung"), "error"))
         \o positionErrors(Tail(vps), index + 1)

\* the warnings pushed by validPositions.forEach
RECURSIVE positionWarnings(_, _)
positionWarnings(vps, index) ==
    IF vps = << >> THEN << >>
    ELSE LET pos == Head(vps) IN
         PushIf(pos.ust \notin { 0, 7, 19 }, Msg("BR-CO-04", positionField(index, "ust"), "warning"))
         \o positionWarnings(Tail(vps), index + 1)

\* the totals validateXRechnung derives from validPositions
RECURSIVE validationNetto(_, _)
validationNetto(acc, vps) ==
    IF vps = << >> THEN acc
    ELSE CHOOSE sums \in
           { validationNetto(
                IF pos.ust = 19 THEN [ sofar EXCEPT !.netto19 = FAdd(@, betrag(pos)) ]
                ELSE IF pos.ust = 7 THEN [ sofar EXCEPT !.netto7 = FAdd(@, betrag(pos)) ]
                ELSE [ sofar EXCEPT !.netto0 = FAdd(@, betrag(pos)) ],
                Tail(vps)) :
             sofar \in { acc }, pos \in { Head(vps) } } : TRUE

validationTotals(ps) ==
    CHOOSE totals \in
      { LET nettoGesamt == FAdd(FAdd(n.netto19, n.netto7), n.netto0)
            ust19       == FMul(n.netto19, Rate19)
            ust7        == FMul(n.netto7, Rate7)
        IN [ netto19 |-> n.netto19, netto7 |-> n.netto7, netto0 |-> n.netto0,
             nettoGesamt |-> nettoGesamt, ust19 |-> ust19, ust7 |-> ust7,
             brutto |-> FAdd(FAdd(nettoGesamt, ust19), ust7) ] :
        n \in { validationNetto([ netto19 |-> FZero, netto7 |-> FZero, netto0 |-> FZero ],
                                validPositionsOf(ps)) } } : TRUE

\* validation that stops at the first rule that fails
validationErrorsFirstOnly(r, v, k, ps) ==
    LET all ==
        PushIf(IsBlank(r.nummer), Msg("BR-01", "rechnung.nummer", "error"))
        \o (IF ~Truthy(r.datum) THEN << Msg("BR-02", "rechnung.datum", "error") >>
            ELSE PushIf(~isValidDate(r.datum), Msg("BR-02-FORMAT", "rechnung.datum", "error")))
        \o (IF IsBlank(r.leitwegId) THEN << >>
            ELSE PushIf(~isValidLeitwegId(r.leitwegId),
                        Msg("BR-DE-15-FORMAT", "rechnung.leitwegId", "error")))
        \o PushIf(IsBlank(v.firma), Msg("BR-04", "verkaeufer.firma", "error"))
        \o PushIf(IsBlank(v.strasse), Msg("BR-05", "verkaeufer.strasse", "error"))
        \o PushIf(IsBlank(v.ort), Msg("BR-06", "verkaeufer.ort", "error"))
        \o PushIf(IsBlank(v.plz), Msg("BR-07", "verkaeufer.plz", "error"))
        \o PushIf(IsBlank(v.ustId) /\ IsBlank(v.steuernummer),
                  Msg("BR-CO-09", "verkaeufer.ustId", "error"))
        \o (IF IsBlank(v.iban) THEN << >>
            ELSE PushIf(~isValidIBAN(v.iban), Msg("BR-DE-19", "verkaeufer.iban", "error")))
        \o PushIf(IsBlank(k.firma), Msg("BR-08", "kaeufer.firma", "error"))
        \o PushIf(IsBlank(k.strasse), Msg("BR-09", "kaeufer.strasse", "error"))
        \o PushIf(IsBlank(k.ort), Msg("BR-10", "kaeufer.ort", "error"))
        \o PushIf(IsBlank(k.plz), Msg("BR-11", "kaeufer.plz", "error"))
        \o PushIf(Len(validPositionsOf(ps)) = 0, Msg("BR-16", "positionen", "error"))
        \o positionErrors(validPositionsOf(ps), 0)
    IN IF all = << >> THEN << >> ELSE << Head(all) >>

\* the errors validateXRechnung pushes, in the order of its checks
validationErrors(r, v, k, ps) ==
    PushIf(IsBlank(r.nummer), Msg("BR-01", "rechnung.nummer", "error"))
    \o (IF ~Truthy(r.datum) THEN << Msg("BR-02", "rechnung.datum", "error") >>
        ELSE PushIf(~isValidDate(r.datum), Msg("BR-02-FORMAT", "rechnung.datum", "error")))
    \o (IF IsBlank(r.leitwegId) THEN << >>
        ELSE PushIf(~isValidLeitwegId(r.leitwegId),
                    Msg("BR-DE-15-FORMAT", "rechnung.leitwegId", "error")))
    \o PushIf(IsBlank(v.firma), Msg("BR-04", "verkaeufer.firma", "error"))
    \o PushIf(IsBlank(v.strasse), Msg("BR-05", "verkaeufer.strasse", "error"))
    \o PushIf(IsBlank(v.ort), Msg("BR-06", "verkaeufer.ort", "error"))
    \o PushIf(IsBlank(v.plz), Msg("BR-07", "verkaeufer.plz", "error"))
    \o PushIf(IsBlank(v.ustId) /\ IsBlank(v.steuernummer),
              Msg("BR-CO-09", "verkaeufer.ustId", "error"))
    \o (IF IsBlank(v.iban) THEN << >>
        ELSE PushIf(~isValidIBAN(v.iban), Msg("BR-DE-19", "verkaeufer.iban", "error")))
    \o PushIf(IsBlank(k.firma), Msg("BR-08", "kaeufer.firma", "error"))
    \o PushIf(IsBlank(k.strasse), Msg("BR-09", "kaeufer.strasse", "error"))
    \o PushIf(IsBlank(k.ort), Msg("BR-10", "kaeufer.ort", "error"))
    \o PushIf(IsBlank(k.plz), Msg("BR-11", "kaeufer.plz", "error"))
    \o PushIf(Len(validPositionsOf(ps)) = 0, Msg("BR-16", "positionen", "error"))
    \o positionErrors(validPositionsOf(ps), 0)

validationWarnings(r, v, k, ps) ==
    PushIf(~Truthy(substring(r.art, 0, 3))
             \/ substring(r.art, 0, 3) \notin { << "3", "8", "0" >>, << "3", "8", "1" >>,
                                               << "3", "8", "4" >>, << "3", "8", "9" >> },
           Msg("BR-03", "rechnung.art", "warning"))
    \o PushIf(IsBlank(r.leitwegId), Msg("BR-DE-15", "rechnung.leitwegId", "warning"))
    \o (IF IsBlank(v.plz) THEN << >>
        ELSE PushIf(~isValidGermanPLZ(v.plz), Msg("BR-07-FORMAT", "verkaeufer.plz", "warning")))
    \o PushIf(Truthy(v.ustId) /\ ~isValidVATId(v.ustId),
              Msg("BR-DE-14", "verkaeufer.ustId", "warning"))
    \o PushIf(IsBlank(v.iban), Msg("INFO-BT84", "verkaeufer.iban", "warning"))
    \o PushIf(Truthy(v.email) /\ ~isValidEmail(v.email),
              Msg("FORMAT-EMAIL-SELLER", "verkaeufer.email", "warning"))
    \o (IF IsBlank(k.plz) THEN << >>
        ELSE PushIf(~isValidGermanPLZ(k.plz), Msg("BR-11-FORMAT", "kaeufer.plz", "warning")))
    \o PushIf(Truthy(k.email) /\ ~isValidEmail(k.email),
              Msg("FORMAT-EMAIL-BUYER", "kaeufer.email", "warning"))
    \o positionWarnings(validPositionsOf(ps), 0)

validationInfos(r, v, k, ps) ==
    PushIf(~Truthy(r.faelligkeit), Msg("INFO-BT9", "rechnung.faelligkeit", "info"))
    \o PushIf(\E t \in { validationTotals(ps) } :
                 /\ FLess(FZero, t.brutto)
                 /\ (FLess(FZero, t.netto19) \/ FLess(FZero, t.netto7))
                 /\ FLess(FAdd(t.ust19, t.ust7), FMul(t.nettoGesamt, Rate6)),
              Msg("CALC-INFO", "summen", "info"))

\* a result that warnings would block as well
resultIsValidWithoutWarnings(errors, warnings, infos) == Len(errors) = 0 /\ Len(warnings) = 0

\* isValid: errors.length === 0
resultIsValid(errors, warnings, infos) == Len(errors) = 0

validateXRechnung(r, v, k, ps) ==
    [ isValid  |-> resultIsValid(validationErrors(r, v, k, ps),
                                 validationWarnings(r, v, k, ps),
                                 validationInfos(r, v, k, ps)),
      errors   |-> validationErrors(r, v, k, ps),
      warnings |-> validationWarnings(r, v, k, ps),
      infos    |-> validationInfos(r, v, k, ps) ]

\* validateFormBasic: the names of the missing mandatory fields
validateFormBasic(r, v, k, ps) ==
    PushIf(~Truthy(r.nummer), "Rechnungsnummer")
    \o PushIf(~Truthy(r.datum), "Rechnungsdatum")
    \o PushIf(~Truthy(v.firma), "Ihre Firma")
    \o PushIf(~Truthy(v.strasse), "Ihre Strasse")
    \o PushIf(~Truthy(v.plz) \/ ~Truthy(v.ort), "Ihre PLZ/Ort")
    \o PushIf(~Truthy(v.ustId) /\ ~Truthy(v.steuernummer), "USt-ID oder Steuernummer")
    \o PushIf(~Truthy(k.firma), "Kunde: Firma")
    \o PushIf(~Truthy(k.strasse), "Kunde: Strasse")
    \o PushIf(~Truthy(k.plz) \/ ~Truthy(k.ort), "Kunde: PLZ/Ort")
    \o PushIf(~(\E i \in 1..Len(ps) :
                  Truthy(ps[i].bezeichnung) /\ ps[i].menge > 0 /\ ps[i].preis > 0),
              "Mind. 1 Position")

(***************************************************************************)
(* Dates                                                                   *)
(***************************************************************************)

isLeapYear(y) == (y % 4 = 0 /\ y % 100 # 0) \/ y % 400 = 0

daysInMonth(y, m) ==
    IF m = 2 THEN (IF isLeapYear(y) THEN 29 ELSE 28)
    ELSE IF m \in { 4, 6, 9, 11 } THEN 30 ELSE 31

\* Date.prototype.setDate overflowing into the following months
RECURSIVE normalizeDate(_, _, _)
normalizeDate(y, m, d) ==
    IF d <= daysInMonth(y, m) THEN << y, m, d >>
    ELSE IF m = 12 THEN normalizeDate(y + 1, 1, d - daysInMonth(y, m))
    ELSE normalizeDate(y, m + 1, d - daysInMonth(y, m))

\* toISOString().split('T')[0]
formatISODate(ymd) ==
    padStart(natToString(ymd[1]), 4, "0") \o << "-" >>
        \o padStart(natToString(ymd[2]), 2, "0") \o << "-" >>
        \o padStart(natToString(ymd[3]), 2, "0")

\* the time zones the page is modelled in
TimeZones == { "UTC", "Europe/Berlin" }

\* the day of the last Sunday of March (m = 3) or October (m = 10), on which
\* Europe/Berlin changes between UTC+1 and UTC+2
lastSunday(y, m) ==
    CHOOSE d \in 25..31 :
        (d + ((13 * (m + 1)) \div 5) + (y % 100) + ((y % 100) \div 4)
           + ((y \div 100) \div 4) + 5 * (y \div 100)) % 7 = 1

\* the offset from UTC, in hours, of the local time h:00 on a day
utcOffset(ymd, h) ==
    IF timeZone = "UTC" THEN 0
    ELSE LET md    == << ymd[2], ymd[3] >>
             start == << 3, lastSunday(ymd[1], 3) >>
             end   == << 10, lastSunday(ymd[1], 10) >>
             Before(a, b) == a[1] < b[1] \/ (a[1] = b[1] /\ a[2] < b[2])
         IN IF Before(md, start) \/ (md = start /\ h < 2) THEN 1
            ELSE IF Before(md, end) \/ (md = end /\ h < 3) THEN 2
            ELSE 1

\* the day before a day
previousDay(ymd) ==
    IF ymd[3] > 1 THEN << ymd[1], ymd[2], ymd[3] - 1 >>
    ELSE IF ymd[2] > 1 THEN << ymd[1], ymd[2] - 1, daysInMonth(ymd[1], ymd[2] - 1) >>
    ELSE << ymd[1] - 1, 12, 31 >>

\* addDays(dateStr, days) for a date YYYY-MM-DD and days >= 0.  new
\* Date(dateStr) is midnight UTC of the date, which is the local time
\* offset:00 of the same day in a time zone east of Greenwich; setDate moves
\* the local date and keeps the local time; toISOString gives the UTC date
\* of the result, the day before when the offset has grown
addDays(dateStr, days) ==
    LET date   == << parseNat(SubSeq(dateStr, 1, 4)), parseNat(SubSeq(dateStr, 6, 7)),
                     parseNat(SubSeq(dateStr, 9, 10)) >>
        hours  == utcOffset(date, 0) \* local time of day: 0:00 UTC + offset at 0:00 UTC
        local  == normalizeDate(date[1], date[2], date[3] + days)
    IN formatISODate(IF utcOffset(local, hours) > hours THEN previousDay(local) ELSE local)

\* new Date().toISOString().split('T')[0] on the day the form is used
today == << "2", "0", "2", "6", "-", "0", "1", "-", "1", "5" >>

in14Days == addDays(today, 14)

\* new Date().getFullYear()
currentYear == parseNat(SubSeq(today, 1, 4))

(***************************************************************************)
(* Initial state factories and the demo data                               *)
(***************************************************************************)

createInitialRechnung(heute, in14) ==
    [ nummer |-> << >>, datum |-> heute, faelligkeit |-> in14, leistungszeitraum |-> << >>,
      art |-> << "3", "8", "0", " ", "-", " ", "R", "e", "c", "h", "n", "u", "n", "g" >>, leitwegId |-> << >>, bestellnummer |-> << >> ]

createInitialVerkaeufer ==
    [ firma |-> << >>, strasse |-> << >>, plz |-> << >>, ort |-> << >>, ustId |-> << >>,
      steuernummer |-> << >>, iban |-> << >>, bic |-> << >>, bank |-> << >>,
      handelsregister |-> << >>, telefon |-> << >>, email |-> << >> ]

createInitialKaeufer ==
    [ firma |-> << >>, strasse |-> << >>, plz |-> << >>, ort |-> << >>, ustId |-> << >>,
      ansprechpartner |-> << >>, email |-> << >>, kundennummer |-> << >> ]

Position(id, bezeichnung, typ, menge, einheit, preis, ust) ==
    [ id |-> id, bezeichnung |-> bezeichnung, typ |-> typ, menge |-> menge,
      einheit |-> einheit, preis |-> preis, ust |-> ust ]

\* the data fillExampleData puts into the form; n is the random part of the number
exampleRechnung(n) ==
    [ nummer |-> << "R", "E", "-" >> \o natToString(currentYear) \o << "-" >>
                    \o padStart(natToString(n), 4, "0"),
      datum |-> today, faelligkeit |-> in14Days, leistungszeitraum |-> SubSeq(today, 1, 7),
      art |-> << "3", "8", "0", " ", "-", " ", "R", "e", "c", "h", "n", "u", "n", "g" >>, leitwegId |-> << >>, bestellnummer |-> << >> ]

exampleVerkaeufer ==
    [ firma |-> << "M", "u", "e", "l", "l", "e", "r", " ", "E", "l", "e", "k", "t", "r", "o", "t", "e", "c", "h", "n", "i", "k", " ", "G", "m", "b", "H" >>,
      strasse |-> << "H", "a", "n", "d", "w", "e", "r", "k", "e", "r", "w", "e", "g", " ", "1", "5" >>,
      plz |-> << "8", "0", "3", "3", "1" >>, ort |-> << "M", "u", "e", "n", "c", "h", "e", "n" >>,
      ustId |-> << "D", "E", "1", "2", "3", "4", "5", "6", "7", "8", "9" >>,
      steuernummer |-> << "1", "4", "3", "/", "1", "2", "3", "/", "1", "2", "3", "4", "5" >>,
      iban |-> << "D", "E", "8", "9", " ", "3", "7", "0", "4", " ", "0", "0", "4", "4", " ", "0", "5", "3", "2", " ", "0", "1", "3", "0", " ", "0", "0" >>,
      bic |-> << "C", "O", "B", "A", "D", "E", "F", "F", "X", "X", "X" >>,
      bank |-> << "C", "o", "m", "m", "e", "r", "z", "b", "a", "n", "k" >>,
      handelsregister |-> << "H", "R", "B", " ", "1", "2", "3", "4", "5", " ", "M", "u", "e", "n", "c", "h", "e", "n" >>,
      telefon |-> << "0", "8", "9", " ", "1", "2", "3", "4", "5", "6" >>,
      email |-> << "i", "n", "f", "o", "@", "m", "u", "e", "l", "l", "e", "r", "-", "e", "l", "e", "k", "t", "r", "o", ".", "d", "e" >> ]

exampleKaeufer ==
    [ firma |-> << "H", "a", "u", "s", "v", "e", "r", "w", "a", "l", "t", "u", "n", "g", " ", "S", "c", "h", "m", "i", "d", "t", " ", "&", " ", "P", "a", "r", "t", "n", "e", "r" >>,
      strasse |-> << "K", "u", "n", "d", "e", "n", "p", "l", "a", "t", "z", " ", "7" >>,
      plz |-> << "8", "0", "3", "3", "3" >>, ort |-> << "M", "u", "e", "n", "c", "h", "e", "n" >>,
      ustId |-> << "D", "E", "9", "8", "7", "6", "5", "4", "3", "2", "1" >>,
      ansprechpartner |-> << "F", "r", "a", "u", " ", "W", "e", "b", "e", "r" >>,
      email |-> << "b", "u", "c", "h", "h", "a", "l", "t", "u", "n", "g", "@", "s", "c", "h", "m", "i", "d", "t", "-", "h", "v", ".", "d", "e" >>,
      kundennummer |-> << "K", "-", "2", "0", "2", "4", "-", "0", "0", "4", "2" >> ]

\* quantities in hundredths, prices in cents
examplePositionen ==
    << Position("1", << "E", "l", "e", "k", "t", "r", "o", "i", "n", "s", "t", "a", "l", "l", "a", "t", "i", "o", "n", " ", "K", "u", "e", "c", "h", "e", " ", "k", "o", "m", "p", "l", "e", "t", "t" >>, "L", 800, "Std", 6500, 19),
       Position("2", << "K", "a", "b", "e", "l", " ", "N", "Y", "M", "-", "J", " ", "3", "x", "2", ",", "5" >>, "M", 5000, "m", 280, 19),
       Position("3", << "S", "t", "e", "c", "k", "d", "o", "s", "e", "n", " ", "&", " ", "S", "c", "h", "a", "l", "t", "e", "r", " ", "(", "G", "i", "r", "a", ")" >>, "M", 1200, "Stk", 1850, 19),
       Position("4", << "A", "n", "f", "a", "h", "r", "t", " ", "M", "u", "e", "n", "c", "h", "e", "n", "-", "I", "n", "n", "e", "n", "s", "t", "a", "d", "t" >>, "F", 100, "psch", 3500, 19) >>

(***************************************************************************)
(* License (usePro)                                                        *)
(***************************************************************************)

\* FREE_LIMITS.invoicesPerMonth
invoicesPerMonth == 3

HexChars == Range(DigitChars) \cup { "A", "B", "C", "D", "E", "F" }

\* a text made of groups of the given lengths, joined by "-", every character
\* of a group being one of chars
RECURSIVE matchesGroups(_, _, _)
matchesGroups(s, lengths, chars) ==
    IF lengths = << >> THEN s = << >>
    ELSE /\ Len(s) >= Head(lengths)
         /\ \A i \in 1 .. Head(lengths) : s[i] \in chars
         /\ IF Len(lengths) = 1 THEN Len(s) = Head(lengths)
            ELSE /\ Len(s) > Head(lengths)
                 /\ s[Head(lengths) + 1] = "-"
                 /\ matchesGroups(SubSeq(s, Head(lengths) + 2, Len(s)), Tail(lengths), chars)

validateLicenseKey(key) ==
    LET trimmedKey == toUpperCase(trim(key)) IN
    \/ matchesGroups(trimmedKey, << 8, 4, 4, 4, 12 >>, HexChars)
    \/ /\ startsWith(trimmedKey, << "E", "R", "E", "C", "H", "-" >>)
       /\ matchesGroups(SubSeq(trimmedKey, 7, Len(trimmedKey)), << 4, 4, 4, 4 >>,
                        Range(UpperChars) \cup Range(DigitChars))

\* canCreateInvoice, canUseZUGFeRD and canUseOffers of the hook's result
canCreateInvoice == isPro \/ invoicesCreated < invoicesPerMonth

canUseZUGFeRD == isPro

canUseOffers == isPro

(***************************************************************************)
(* Document numbers (the settings rows of the database)                    *)
(***************************************************************************)

getDefaultSettings ==
    [ id |-> "invoice-number-settings", prefix |-> << "R", "E" >>, separator |-> << "-" >>,
      yearFormat |-> "4", numberLength |-> 4, resetOnYearChange |-> TRUE,
      lastYear |-> currentYear, lastNumber |-> 0 ]

getDefaultOfferSettings ==
    [ id |-> "offer-number-settings", prefix |-> << "A", "N", "G" >>, separator |-> << "-" >>,
      yearFormat |-> "4", numberLength |-> 4, resetOnYearChange |-> TRUE,
      lastYear |-> currentYear, lastNumber |-> 0 ]

\* the number that follows the one a settings row records, and its text
nextNumberOf(settings) ==
    IF settings.resetOnYearChange /\ currentYear # settings.lastYear
    THEN 1 ELSE settings.lastNumber + 1

formatNumber(settings, nextNumber) ==
    LET yearStr == IF settings.yearFormat = "4" THEN natToString(currentYear)
                   ELSE SubSeq(natToString(currentYear), 3, 4)
        numberStr == padStart(natToString(nextNumber), settings.numberLength, "0")
    IN settings.prefix \o settings.separator \o yearStr \o settings.separator \o numberStr

\* generateInvoiceNumber: the number returned and the row written
generateInvoiceNumber ==
    LET settings == IF numberSettings = None THEN getDefaultSettings ELSE numberSettings[1] IN
    [ number |-> formatNumber(settings, nextNumberOf(settings)),
      row    |-> Some([ settings EXCEPT !.lastYear = currentYear,
                                        !.lastNumber = nextNumberOf(settings) ]) ]

generateOfferNumber ==
    LET settings == IF offerSettings = None THEN getDefaultOfferSettings ELSE offerSettings[1] IN
    [ number |-> formatNumber(settings, nextNumberOf(settings)),
      row    |-> Some([ settings EXCEPT !.lastYear = currentYear,
                                        !.lastNumber = nextNumberOf(settings) ]) ]

\* the preview without the restart at the change of the year
getNextInvoiceNumberWithoutReset ==
    LET settings == IF numberSettings = None THEN getDefaultSettings ELSE numberSettings[1] IN
    formatNumber(settings, settings.lastNumber + 1)

\* getNextInvoiceNumber and getNextOfferNumber write nothing
getNextInvoiceNumber ==
    LET settings == IF numberSettings = None THEN getDefaultSettings ELSE numberSettings[1] IN
    formatNumber(settings, nextNumberOf(settings))

getNextOfferNumber ==
    LET settings == IF offerSettings = None THEN getDefaultOfferSettings ELSE offerSettings[1] IN
    formatNumber(settings, nextNumberOf(settings))

(***************************************************************************)
(* State after construction of the page (Home and usePro): the license and *)
(* the usage counter come from localStorage, the archive from the database *)
(***************************************************************************)

InitPageFor(licensed, stored, created, settings) ==
    /\ inFlight = << >>
    /\ documentType = "invoice"
    /\ currentInvoiceId = None
    /\ hasUnsavedChanges = FALSE
    /\ showUnsavedWarning = None
    /\ attemptedExport = FALSE
    /\ faelligkeitManuallySet = FALSE
    /\ saveTimerArmed = TRUE
    /\ isGeneratingPdf = FALSE
    /\ pdfJob = None
    /\ validationResult = None
    /\ showValidationModal = FALSE
    /\ toast = ""
    /\ upgradeModal = ""
    /\ isPro = licensed
    /\ invoicesCreated = created
    /\ invoices = stored
    /\ numberSettings = settings
    /\ offerSettings = None
    /\ nextId = Cardinality(stored) + 1
    /\ lastExport = None
    /\ summen = None
    /\ xrechnungXML = None
    /\ zugferdXML = None

\* the usage counter of a browser in which every stored invoice was created
\* this month
InitPageWith(licensed, stored) ==
    InitPageFor(licensed, stored,
                Cardinality({ inv \in stored : inv.documentType = "invoice" }), None)

\* a first visit: no license, an empty database
InitPage == InitPageWith(FALSE, { })

\* the empty form the page starts with
InitForm ==
    /\ rechnung = createInitialRechnung(today, in14Days)
    /\ verkaeufer = createInitialVerkaeufer
    /\ kaeufer = createInitialKaeufer
    /\ positionen = << >>

Init == timeZone = "Europe/Berlin" /\ InitForm /\ InitPage

pageVars == << documentType, currentInvoiceId, hasUnsavedChanges, showUnsavedWarning,
               attemptedExport, faelligkeitManuallySet, saveTimerArmed, isGeneratingPdf,
               pdfJob, upgradeModal, isPro, invoicesCreated, invoices,
               numberSettings, offerSettings, nextId >>

\* outputs of a step: the toast it raises and the document it hands to the
\* browser (clipboard or download); a step that raises none leaves none
noOutput == toast' = "" /\ lastExport' = None

formVars == << rechnung, verkaeufer, kaeufer, positionen >>

(***************************************************************************)
(* The pure functions applied to the form                                  *)
(***************************************************************************)

\* const summen = calculateSummen(positionen)
computeSummen ==
    /\ summen = None
    /\ summen' = Some(calculateSummen(positionen))
    /\ noOutput
    /\ UNCHANGED << timeZone, inFlight, formVars, pageVars, validationResult, showValidationModal,
                    xrechnungXML, zugferdXML >>

\* const xml = generateXRechnungXML(rechnung, verkaeufer, kaeufer, positionen)
applyGenerateXRechnungXML ==
    /\ xrechnungXML = None
    /\ xrechnungXML' = Some(generateXRechnungXML(rechnung, verkaeufer, kaeufer, positionen))
    /\ noOutput
    /\ UNCHANGED << timeZone, inFlight, formVars, pageVars, validationResult, showValidationModal,
                    summen, zugferdXML >>

\* const xmlContent = generateZUGFeRDXML(rechnung, verkaeufer, kaeufer, positionen)
applyGenerateZUGFeRDXML ==
    /\ zugferdXML = None
    /\ zugferdXML' = Some(generateZUGFeRDXML(rechnung, verkaeufer, kaeufer, positionen))
    /\ noOutput
    /\ UNCHANGED << timeZone, inFlight, formVars, pageVars, validationResult, showValidationModal,
                    summen, xrechnungXML >>

\* runValidation: the report is shown in a modal dialog
runValidation ==
    /\ ~showValidationModal
    /\ validationResult' = Some(validateXRechnung(rechnung, verkaeufer, kaeufer, positionen))
    /\ showValidationModal' = TRUE
    /\ noOutput
    /\ UNCHANGED << timeZone, inFlight, formVars, pageVars, summen, xrechnungXML, zugferdXML >>

(***************************************************************************)
(* Line-item inputs: lists of at most MaxLines of these line items, taken  *)
(* in the order below or in the reverse order                              *)
(***************************************************************************)

MaxLines == 3

PositionInputs ==
    << Position("a", << "B", "e", "r", "a", "t", "u", "n", "g" >>, "L", 200, "Std", 10000, 19),
       Position("b", << "K", "a", "b", "e", "l" >>, "M", 150, "m", 280, 7),
       Position("c", << "P", "o", "r", "t", "o" >>, "S", 100, "Box", 500, 0),
       Position("d", << "S", "o", "n", "d", "e", "r" >>, "F", 100, "psch", 3300, 16),
       Position("e", << >>, "L", 100, "Std", 10000, 19),
       Position("f", << "N", "u", "l", "l" >>, "M", 0, "Stk", 10000, 19),
       Position("g", << "R", "a", "b", "a", "t", "t" >>, "L", 100, "Stk", -5000, 0),
       Position("h", << "D", "u", "e", "b", "e", "l" >>, "M", 100, "Pkg", 450, 19) >>

\* the choices of n line items, ascending or descending in the order above
PositionChoices(n) ==
    { idx \in [ 1..n -> DOMAIN PositionInputs ] :
        \/ \A i, j \in 1..n : i < j => idx[i] < idx[j]
        \/ \A i, j \in 1..n : i < j => idx[i] > idx[j] }

\* lists of at most MaxLines line items, each with an id of its own
PositionLists ==
    UNION { { [ i \in 1..n |-> PositionInputs[idx[i]] ] : idx \in PositionChoices(n) } :
            n \in 0..MaxLines }

InitCalc ==
    /\ timeZone = "Europe/Berlin"
    /\ rechnung = exampleRechnung(1)
    /\ verkaeufer = exampleVerkaeufer
    /\ kaeufer = exampleKaeufer
    /\ positionen \in PositionLists
    /\ InitPage

NextCalc ==
    \/ computeSummen
    \/ applyGenerateXRechnungXML
    \/ applyGenerateZUGFeRDXML
    \/ runValidation

SpecCalc == InitCalc /\ [][NextCalc]_vars

(***************************************************************************)
(* The validation engine and the generators applied to documents: the demo *)
(* data or the empty form, with some fields changed                        *)
(***************************************************************************)

MaxFieldChanges == 1

\* part, field and new value
DocChanges ==
    << << "rechnung", "nummer", << >> >>,
       << "rechnung", "datum", << >> >>,
       << "rechnung", "datum", << "2", "0", ".", "0", "2", ".", "2", "0", "2", "6" >> >>,
       << "rechnung", "faelligkeit", << >> >>,
       << "rechnung", "leitwegId", << "9", "9", "1", "-", "A", "B", "C" >> >>,
       << "rechnung", "leitwegId", << "1", "2", "3", "4", "5" >> >>,
       << "verkaeufer", "iban", << "D", "E", "1", "2" >> >>,
       << "verkaeufer", "iban", << >> >>,
       << "verkaeufer", "firma", << " " >> >>,
       << "verkaeufer", "plz", << "8", "0", "3", "3" >> >>,
       << "verkaeufer", "ustId", << >> >>,
       << "kaeufer", "firma", << >> >>,
       << "kaeufer", "kundennummer", << >> >>,
       << "kaeufer", "kundennummer", << "K", "-", "1" >> >>,
       << "kaeufer", "email", << "x" >> >>,
       << "rechnung", "leitwegId", << "1", "&", "2", "-", "3" >> >>,
       << "rechnung", "leitwegId", << " " >> >>,
       << "rechnung", "nummer", << "R", "-", "1" >> >>,
       << "verkaeufer", "iban", << " " >> >>,
       << "verkaeufer", "bic", << >> >>,
       << "verkaeufer", "plz", << >> >>,
       << "verkaeufer", "firma", << "A" >> >>,
       << "verkaeufer", "steuernummer", << "1", "2", "/", "3" >> >>,
       << "kaeufer", "plz", << "1", "2", "3", "4" >> >>,
       << "kaeufer", "plz", << >> >>,
       << "kaeufer", "firma", << "B" >> >>,
       << "verkaeufer", "plz", << " " >> >>,
       << "kaeufer", "plz", << " ", " " >> >> >>

\* the sets of at most MaxFieldChanges changes
ChangeSets ==
    LET upTo[n \in 0..MaxFieldChanges] ==
          IF n = 0 THEN { { } }
          ELSE upTo[n - 1] \cup { S \cup { i } : S \in upTo[n - 1], i \in DOMAIN DocChanges }
    IN upTo[MaxFieldChanges]

\* the changes of S made in the order of the list
RECURSIVE applyChanges(_, _)
applyChanges(form, S) ==
    IF S = { } THEN form
    ELSE LET i  == CHOOSE j \in S : \A l \in S : j <= l
             ch == DocChanges[i]
         IN applyChanges([ form EXCEPT ![ch[1]][ch[2]] = ch[3] ], S \ { i })

DocForms ==
    { [ rechnung |-> createInitialRechnung(today, in14Days),
        verkaeufer |-> createInitialVerkaeufer, kaeufer |-> createInitialKaeufer ],
      [ rechnung |-> exampleRechnung(1),
        verkaeufer |-> exampleVerkaeufer, kaeufer |-> exampleKaeufer ] }

InitDoc ==
    /\ timeZone = "Europe/Berlin"
    /\ \E base \in DocForms, S \in ChangeSets :
          /\ rechnung = applyChanges(base, S).rechnung
          /\ verkaeufer = applyChanges(base, S).verkaeufer
          /\ kaeufer = applyChanges(base, S).kaeufer
    /\ positionen \in { << >>, examplePositionen }
    /\ InitPage

NextDoc ==
    \/ runValidation
    \/ applyGenerateXRechnungXML
    \/ applyGenerateZUGFeRDXML

SpecDoc == InitDoc /\ [][NextDoc]_vars

(***************************************************************************)
(* escapeXML applied to texts: the generators write the invoice number     *)
(* through escapeXML, for every text over the characters it replaces and   *)
(* some it leaves alone                                                    *)
(***************************************************************************)

MaxTextLen == 4

\* the five characters escapeXML replaces, and characters of their entities
TextChars == { "&", "<", ">", "\"", "'", "l", "t", ";" }

Texts == UNION { [ 1..n -> TextChars ] : n \in 0..MaxTextLen }

InitEscape ==
    /\ timeZone = "Europe/Berlin"
    /\ \E text \in Texts :
          rechnung = [ createInitialRechnung(today, in14Days) EXCEPT !.nummer = text ]
    /\ verkaeufer = createInitialVerkaeufer
    /\ kaeufer = createInitialKaeufer
    /\ positionen = << >>
    /\ InitPage

NextEscape ==
    \/ applyGenerateXRechnungXML
    \/ applyGenerateZUGFeRDXML

SpecEscape == InitEscape /\ [][NextEscape]_vars

(***************************************************************************)
(* The page (Home): state derived on every render, and the effects         *)
(***************************************************************************)

calcVars == << summen, xrechnungXML, zugferdXML >>

\* const errors = validateFormBasic(...); const isValid = errors.length === 0
isValid == Len(validateFormBasic(rechnung, verkaeufer, kaeufer, positionen)) = 0

\* const brutto = summen.netto + summen.ust19 + summen.ust7
brutto == bruttoOf(calculateSummen(positionen))

\* the form as the handlers' closures capture it
invoiceData ==
    [ rechnung |-> rechnung, verkaeufer |-> verkaeufer, kaeufer |-> kaeufer,
      positionen |-> positionen ]

\* a confirmation dialog, the validation report or the upgrade dialog covers
\* the page
dialogOpen == showUnsavedWarning # None \/ showValidationModal \/ upgradeModal # ""

\* the effect "auto-calculate due date", run after a render in which
\* rechnung.datum or faelligkeitManuallySet has changed
dueDateEffect(r, manual) ==
    IF (r.datum # rechnung.datum \/ manual # faelligkeitManuallySet)
         /\ ~manual /\ Truthy(r.datum)
    THEN [ r EXCEPT !.faelligkeit = addDays(r.datum, 14) ]
    ELSE r

\* generateId() gives every copied line item a new id
renewIds(ps) == [ i \in DOMAIN ps |-> [ ps[i] EXCEPT !.id = "g" \o ToString(i) ] ]

\* the timer of the effect "auto-save with debounce" runs out
autoSave ==
    /\ saveTimerArmed
    /\ saveTimerArmed' = FALSE
    /\ hasUnsavedChanges' = TRUE
    /\ toast' = ""
    /\ lastExport' = None
    /\ UNCHANGED << timeZone, inFlight, formVars, documentType, currentInvoiceId, showUnsavedWarning,
                    attemptedExport, faelligkeitManuallySet, isGeneratingPdf, pdfJob,
                    validationResult, showValidationModal, upgradeModal, isPro,
                    invoicesCreated, invoices, numberSettings, offerSettings, nextId, calcVars >>

(***************************************************************************)
(* Editing the form                                                        *)
(***************************************************************************)

\* onChange of the due date field: setFaelligkeitManuallySet(true) and the
\* value typed
handleFaelligkeitChange(value) ==
    /\ ~dialogOpen
    /\ faelligkeitManuallySet' = TRUE
    /\ rechnung' = dueDateEffect([ rechnung EXCEPT !.faelligkeit = value ], TRUE)
    /\ saveTimerArmed' = TRUE
    /\ toast' = ""
    /\ lastExport' = None
    /\ UNCHANGED << timeZone, inFlight, verkaeufer, kaeufer, positionen, documentType, currentInvoiceId,
                    hasUnsavedChanges, showUnsavedWarning, attemptedExport,
                    isGeneratingPdf, pdfJob, validationResult, showValidationModal,
                    upgradeModal, isPro, invoicesCreated, invoices, numberSettings,
                    offerSettings, nextId, calcVars >>

handleRechnungChange(field, value) ==
    /\ ~dialogOpen
    /\ rechnung' = dueDateEffect([ rechnung EXCEPT ![field] = value ], faelligkeitManuallySet)
    /\ saveTimerArmed' = TRUE
    /\ toast' = ""
    /\ lastExport' = None
    /\ UNCHANGED << timeZone, inFlight, verkaeufer, kaeufer, positionen, documentType, currentInvoiceId,
                    hasUnsavedChanges, showUnsavedWarning, attemptedExport,
                    faelligkeitManuallySet, isGeneratingPdf, pdfJob, validationResult,
                    showValidationModal, upgradeModal, isPro, invoicesCreated, invoices,
                    numberSettings, offerSettings, nextId, calcVars >>

handleVerkaeuferChange(field, value) ==
    /\ ~dialogOpen
    /\ verkaeufer' = [ verkaeufer EXCEPT ![field] = value ]
    /\ saveTimerArmed' = TRUE
    /\ toast' = ""
    /\ lastExport' = None
    /\ UNCHANGED << timeZone, inFlight, rechnung, kaeufer, positionen, documentType, currentInvoiceId,
                    hasUnsavedChanges, showUnsavedWarning, attemptedExport,
                    faelligkeitManuallySet, isGeneratingPdf, pdfJob, validationResult,
                    showValidationModal, upgradeModal, isPro, invoicesCreated, invoices,
                    numberSettings, offerSettings, nextId, calcVars >>

\* the values typed into the fields
RechnungEdits ==
    { << "nummer", << >> >>,
      << "nummer", << "R", "E", "-", "2", "0", "2", "6", "-", "0", "0", "0", "1" >> >>,
      << "leitwegId", << "9", "9", "1", "-", "A", "B", "C" >> >>,
      << "leitwegId", << "1", "2", "3", "4", "5" >> >>,
      << "datum", << "2", "0", "2", "6", "-", "0", "2", "-", "2", "0" >> >> }

VerkaeuferEdits == { << "iban", << "D", "E", "1", "2" >> >>, << "firma", << " " >> >> }

(***************************************************************************)
(* Demo data, new document, document numbers                               *)
(***************************************************************************)

MaxExampleNumber == 1

\* Math.floor(Math.random() * 1000), as far as it is followed here
ExampleNumbers == 1 .. MaxExampleNumber

fillExampleData(n) ==
    /\ ~dialogOpen
    /\ rechnung' = dueDateEffect(exampleRechnung(n), faelligkeitManuallySet)
    /\ verkaeufer' = exampleVerkaeufer
    /\ kaeufer' = exampleKaeufer
    /\ positionen' = examplePositionen
    /\ documentType' = "invoice"
    /\ toast' = "Demo-Daten geladen"
    /\ saveTimerArmed' = TRUE
    /\ lastExport' = None
    /\ UNCHANGED << timeZone, inFlight, currentInvoiceId, hasUnsavedChanges, showUnsavedWarning,
                    attemptedExport, faelligkeitManuallySet, isGeneratingPdf, pdfJob,
                    validationResult, showValidationModal, upgradeModal, isPro,
                    invoicesCreated, invoices, numberSettings, offerSettings, nextId, calcVars >>

resetForm ==
    /\ ~dialogOpen
    /\ LET nextNumber == IF documentType = "invoice" THEN getNextInvoiceNumber
                         ELSE getNextOfferNumber
       IN rechnung' = dueDateEffect([ createInitialRechnung(today, in14Days)
                                        EXCEPT !.nummer = nextNumber ], FALSE)
    /\ verkaeufer' = createInitialVerkaeufer
    /\ kaeufer' = createInitialKaeufer
    /\ positionen' = << >>
    /\ attemptedExport' = FALSE
    /\ faelligkeitManuallySet' = FALSE
    /\ currentInvoiceId' = None
    /\ hasUnsavedChanges' = FALSE
    /\ toast' = (IF documentType = "invoice" THEN "Neues Dokument erstellt"
                 ELSE "Neues Angebot erstellt")
    /\ saveTimerArmed' = TRUE
    /\ lastExport' = None
    /\ UNCHANGED << timeZone, inFlight, documentType, showUnsavedWarning, isGeneratingPdf, pdfJob,
                    validationResult, showValidationModal, upgradeModal, isPro,
                    invoicesCreated, invoices, numberSettings, offerSettings, nextId, calcVars >>

\* the highest document number followed
MaxNumber == 2

autoGenerateNumber ==
    /\ ~dialogOpen
    /\ IF documentType = "invoice"
       THEN /\ generateInvoiceNumber.row[1].lastNumber <= MaxNumber
            /\ rechnung' = [ rechnung EXCEPT !.nummer = generateInvoiceNumber.number ]
            /\ numberSettings' = generateInvoiceNumber.row
            /\ toast' = "Rechnungsnummer generiert"
            /\ UNCHANGED offerSettings
       ELSE /\ generateOfferNumber.row[1].lastNumber <= MaxNumber
            /\ rechnung' = [ rechnung EXCEPT !.nummer = generateOfferNumber.number ]
            /\ offerSettings' = generateOfferNumber.row
            /\ toast' = "Angebotsnummer generiert"
            /\ UNCHANGED numberSettings
    /\ saveTimerArmed' = TRUE
    /\ lastExport' = None
    /\ UNCHANGED << timeZone, inFlight, verkaeufer, kaeufer, positionen, documentType, currentInvoiceId,
                    hasUnsavedChanges, showUnsavedWarning, attemptedExport,
                    faelligkeitManuallySet, isGeneratingPdf, pdfJob, validationResult,
                    showValidationModal, upgradeModal, isPro, invoicesCreated, invoices,
                    nextId, calcVars >>

(***************************************************************************)
(* The archive (db.invoices)                                               *)
(***************************************************************************)

\* the number of records ever added that is followed
MaxRecords == 2

\* the fields saveToArchive writes, apart from id and status
archiveFields ==
    [ invoiceNumber |-> IF Truthy(rechnung.nummer) THEN rechnung.nummer ELSE << "E", "n", "t", "w", "u", "r", "f" >>,
      customerName  |-> IF Truthy(kaeufer.firma) THEN kaeufer.firma ELSE << "U", "n", "b", "e", "k", "a", "n", "n", "t" >>,
      totalGross    |-> brutto,
      documentType  |-> documentType,
      data          |-> invoiceData ]

saveToArchive(saveAsNew) ==
    /\ ~dialogOpen
    /\ IF currentInvoiceId # None /\ ~saveAsNew
       THEN /\ invoices' = { IF inv.id = currentInvoiceId[1]
                             THEN archiveFields @@ [ id |-> inv.id, status |-> inv.status ]
                             ELSE inv : inv \in invoices }
            /\ hasUnsavedChanges' = FALSE
            /\ toast' = "Dokument aktualisiert"
            /\ UNCHANGED << timeZone, inFlight, currentInvoiceId, invoicesCreated, upgradeModal, nextId >>
       ELSE IF documentType = "invoice" /\ ~canCreateInvoice
       THEN /\ upgradeModal' = "invoice-limit"
            /\ toast' = ""
            /\ UNCHANGED << timeZone, inFlight, invoices, hasUnsavedChanges, currentInvoiceId, invoicesCreated,
                            nextId >>
       ELSE /\ nextId <= MaxRecords
            /\ invoices' = invoices \cup { archiveFields @@ [ id |-> nextId, status |-> "draft" ] }
            /\ nextId' = nextId + 1
            /\ currentInvoiceId' = Some(nextId)
            /\ hasUnsavedChanges' = FALSE
            /\ invoicesCreated' = (IF documentType = "invoice" THEN invoicesCreated + 1
                                   ELSE invoicesCreated)
            /\ toast' = "Dokument im Archiv gespeichert"
            /\ UNCHANGED upgradeModal
    /\ lastExport' = None
    /\ UNCHANGED << timeZone, inFlight, formVars, documentType, showUnsavedWarning, attemptedExport,
                    faelligkeitManuallySet, saveTimerArmed, isGeneratingPdf, pdfJob,
                    validationResult, showValidationModal, isPro, numberSettings,
                    offerSettings, calcVars >>

\* what loadFromArchive and confirmLoadFromArchive put into the form
loadInvoice(invoice) ==
    /\ rechnung' = dueDateEffect(invoice.data.rechnung, faelligkeitManuallySet)
    /\ verkaeufer' = invoice.data.verkaeufer
    /\ kaeufer' = invoice.data.kaeufer
    /\ positionen' = invoice.data.positionen
    /\ documentType' = invoice.documentType
    /\ currentInvoiceId' = Some(invoice.id)
    /\ hasUnsavedChanges' = FALSE
    /\ saveTimerArmed' = TRUE

\* a load that never asks
loadFromArchiveUnasked(invoice) ==
    /\ ~dialogOpen
    /\ loadInvoice(invoice)
    /\ toast' = (IF invoice.documentType = "offer" THEN "Angebot geladen"
                 ELSE "Rechnung geladen")
    /\ lastExport' = None
    /\ UNCHANGED << timeZone, inFlight, showUnsavedWarning, attemptedExport,
                    faelligkeitManuallySet, isGeneratingPdf, pdfJob,
                    validationResult, showValidationModal, upgradeModal, isPro,
                    invoicesCreated, invoices, numberSettings, offerSettings, nextId, calcVars >>

\* loadFromArchive: with unsaved changes it only asks
loadFromArchive(invoice) ==
    /\ ~dialogOpen
    /\ IF hasUnsavedChanges
       THEN /\ showUnsavedWarning' = Some(invoice)
            /\ toast' = ""
            /\ UNCHANGED << timeZone, inFlight, formVars, documentType, currentInvoiceId, hasUnsavedChanges,
                            saveTimerArmed >>
       ELSE /\ loadInvoice(invoice)
            /\ toast' = (IF invoice.documentType = "offer" THEN "Angebot geladen"
                         ELSE "Rechnung geladen")
            /\ UNCHANGED showUnsavedWarning
    /\ lastExport' = None
    /\ UNCHANGED << timeZone, inFlight, attemptedExport, faelligkeitManuallySet, isGeneratingPdf, pdfJob,
                    validationResult, showValidationModal, upgradeModal, isPro,
                    invoicesCreated, invoices, numberSettings, offerSettings, nextId, calcVars >>

confirmLoadFromArchive ==
    /\ showUnsavedWarning # None
    /\ loadInvoice(showUnsavedWarning[1])
    /\ showUnsavedWarning' = None
    /\ toast' = "Dokument geladen"
    /\ lastExport' = None
    /\ UNCHANGED << timeZone, inFlight, attemptedExport, faelligkeitManuallySet, isGeneratingPdf, pdfJob,
                    validationResult, showValidationModal, upgradeModal, isPro,
                    invoicesCreated, invoices, numberSettings, offerSettings, nextId, calcVars >>

\* onCancel of the dialog "Ungespeicherte Aenderungen"
cancelLoadFromArchive ==
    /\ showUnsavedWarning # None
    /\ showUnsavedWarning' = None
    /\ toast' = ""
    /\ lastExport' = None
    /\ UNCHANGED << timeZone, inFlight, formVars, documentType, currentInvoiceId, hasUnsavedChanges,
                    attemptedExport, faelligkeitManuallySet, saveTimerArmed,
                    isGeneratingPdf, pdfJob, validationResult, showValidationModal,
                    upgradeModal, isPro, invoicesCreated, invoices, numberSettings,
                    offerSettings, nextId, calcVars >>

duplicateInvoice(invoice) ==
    /\ ~dialogOpen
    /\ IF invoice.documentType = "offer"
       THEN /\ generateOfferNumber.row[1].lastNumber <= MaxNumber
            /\ rechnung' = dueDateEffect([ invoice.data.rechnung
                                             EXCEPT !.nummer = generateOfferNumber.number,
                                                    !.datum = today,
                                                    !.faelligkeit = in14Days ],
                                         faelligkeitManuallySet)
            /\ offerSettings' = generateOfferNumber.row
            /\ UNCHANGED numberSettings
       ELSE /\ generateInvoiceNumber.row[1].lastNumber <= MaxNumber
            /\ rechnung' = dueDateEffect([ invoice.data.rechnung
                                             EXCEPT !.nummer = generateInvoiceNumber.number,
                                                    !.datum = today,
                                                    !.faelligkeit = in14Days ],
                                         faelligkeitManuallySet)
            /\ numberSettings' = generateInvoiceNumber.row
            /\ UNCHANGED offerSettings
    /\ verkaeufer' = invoice.data.verkaeufer
    /\ kaeufer' = invoice.data.kaeufer
    /\ positionen' = renewIds(invoice.data.positionen)
    /\ documentType' = invoice.documentType
    /\ currentInvoiceId' = None
    /\ hasUnsavedChanges' = TRUE
    /\ toast' = "Dokument dupliziert"
    /\ saveTimerArmed' = TRUE
    /\ lastExport' = None
    /\ UNCHANGED << timeZone, inFlight, showUnsavedWarning, attemptedExport, faelligkeitManuallySet,
                    isGeneratingPdf, pdfJob, validationResult, showValidationModal,
                    upgradeModal, isPro, invoicesCreated, invoices, nextId,
                    calcVars >>

\* offered in the archive for offers only
convertOfferToInvoice(offer) ==
    /\ ~dialogOpen
    /\ offer.documentType = "offer"
    /\ generateInvoiceNumber.row[1].lastNumber <= MaxNumber
    /\ rechnung' = dueDateEffect([ offer.data.rechnung
                                     EXCEPT !.nummer = generateInvoiceNumber.number,
                                            !.datum = today,
                                            !.faelligkeit = in14Days,
                                            !.art = << "3", "8", "0", " ", "-", " ", "R", "e", "c", "h", "n", "u", "n", "g" >> ],
                                 faelligkeitManuallySet)
    /\ numberSettings' = generateInvoiceNumber.row
    /\ verkaeufer' = offer.data.verkaeufer
    /\ kaeufer' = offer.data.kaeufer
    /\ positionen' = renewIds(offer.data.positionen)
    /\ documentType' = "invoice"
    /\ currentInvoiceId' = None
    /\ hasUnsavedChanges' = TRUE
    /\ toast' = "Angebot in Rechnung umgewandelt"
    /\ saveTimerArmed' = TRUE
    /\ lastExport' = None
    /\ UNCHANGED << timeZone, inFlight, showUnsavedWarning, attemptedExport, faelligkeitManuallySet,
                    isGeneratingPdf, pdfJob, validationResult, showValidationModal,
                    upgradeModal, isPro, invoicesCreated, invoices, offerSettings, nextId, calcVars >>

(***************************************************************************)
(* Document type and license                                               *)
(***************************************************************************)

switchDocumentType(type) ==
    /\ ~dialogOpen
    /\ IF type = "offer" /\ ~canUseOffers
       THEN /\ upgradeModal' = "offers"
            /\ UNCHANGED << timeZone, inFlight, rechnung, documentType, saveTimerArmed >>
       ELSE /\ documentType' = type
            /\ IF ~Truthy(rechnung.nummer)
               THEN /\ rechnung' =
                         [ rechnung EXCEPT
                             !.nummer = (IF type = "invoice" THEN getNextInvoiceNumber
                                         ELSE getNextOfferNumber),
                             !.art = (IF type = "invoice" THEN << "3", "8", "0", " ", "-", " ", "R", "e", "c", "h", "n", "u", "n", "g" >>
                                      ELSE << "3", "1", "0", " ", "-", " ", "A", "n", "g", "e", "b", "o", "t" >>) ]
                    /\ saveTimerArmed' = TRUE
               ELSE UNCHANGED << timeZone, inFlight, rechnung, saveTimerArmed >>
            /\ UNCHANGED upgradeModal
    /\ toast' = ""
    /\ lastExport' = None
    /\ UNCHANGED << timeZone, inFlight, verkaeufer, kaeufer, positionen, currentInvoiceId, hasUnsavedChanges,
                    showUnsavedWarning, attemptedExport, faelligkeitManuallySet,
                    isGeneratingPdf, pdfJob, validationResult, showValidationModal, isPro,
                    invoicesCreated, invoices, numberSettings, offerSettings, nextId, calcVars >>

\* the keys typed into the license field
LicenseKeys == { << " ", "e", "r", "e", "c", "h", "-", "a", "b", "1", "2", "-", "c", "d", "3", "4", "-", "e", "f", "5", "6", "-", "g", "h", "7", "8", " " >>, << "E", "R", "E", "C", "H", "-", "1", "2", "3", "4" >> }

\* activateLicense, called from the upgrade dialog or the settings
activateLicense(key) ==
    /\ showUnsavedWarning = None /\ ~showValidationModal
    /\ validateLicenseKey(trim(toUpperCase(key)))
    /\ isPro' = TRUE
    /\ toast' = ""
    /\ lastExport' = None
    /\ UNCHANGED << timeZone, inFlight, formVars, documentType, currentInvoiceId, hasUnsavedChanges,
                    showUnsavedWarning, attemptedExport, faelligkeitManuallySet,
                    saveTimerArmed, isGeneratingPdf, pdfJob, validationResult,
                    showValidationModal, upgradeModal, invoicesCreated, invoices,
                    numberSettings, offerSettings, nextId, calcVars >>

\* usePro.deactivateLicense (the license dialog of the header); the page state
\* is left as it is
deactivateLicense ==
    /\ ~dialogOpen
    /\ isPro
    /\ isPro' = FALSE
    /\ toast' = ""
    /\ lastExport' = None
    /\ UNCHANGED << timeZone, inFlight, formVars, documentType, currentInvoiceId, hasUnsavedChanges,
                    showUnsavedWarning, attemptedExport, faelligkeitManuallySet,
                    saveTimerArmed, isGeneratingPdf, pdfJob, validationResult,
                    showValidationModal, upgradeModal, invoicesCreated, invoices,
                    numberSettings, offerSettings, nextId, calcVars >>

hideUpgradeModal ==
    /\ upgradeModal # ""
    /\ upgradeModal' = ""
    /\ toast' = ""
    /\ lastExport' = None
    /\ UNCHANGED << timeZone, inFlight, formVars, documentType, currentInvoiceId, hasUnsavedChanges,
                    showUnsavedWarning, attemptedExport, faelligkeitManuallySet,
                    saveTimerArmed, isGeneratingPdf, pdfJob, validationResult,
                    showValidationModal, isPro, invoicesCreated, invoices, numberSettings,
                    offerSettings, nextId, calcVars >>

(***************************************************************************)
(* Export                                                                  *)
(***************************************************************************)

\* what a handler hands to the user: the format, and the document type and
\* form its closure holds; the file's content is the generator's output for
\* this form
Export(kind) == [ kind |-> kind, documentType |-> documentType, data |-> invoiceData ]

\* the button "Kopieren" is rendered while isValid
copyXML ==
    /\ ~dialogOpen
    /\ isValid
    /\ lastExport' = Some(Export("copyXML"))
    /\ toast' = "XRechnung in Zwischenablage kopiert"
    /\ UNCHANGED << timeZone, inFlight, formVars, documentType, currentInvoiceId, hasUnsavedChanges,
                    showUnsavedWarning, attemptedExport, faelligkeitManuallySet,
                    saveTimerArmed, isGeneratingPdf, pdfJob, validationResult,
                    showValidationModal, upgradeModal, isPro, invoicesCreated, invoices,
                    numberSettings, offerSettings, nextId, calcVars >>

downloadXML ==
    /\ attemptedExport' = TRUE
    /\ IF ~isValid
       THEN /\ toast' = "Bitte alle Pflichtfelder ausfuellen"
            /\ lastExport' = None
       ELSE /\ lastExport' = Some(Export("downloadXML"))
            /\ toast' = "XRechnung wurde gespeichert"
    /\ UNCHANGED << timeZone, inFlight, isGeneratingPdf, pdfJob, upgradeModal >>

\* downloadZUGFeRD up to its first await
downloadZUGFeRD ==
    /\ attemptedExport' = TRUE
    /\ IF ~isValid
       THEN /\ toast' = "Bitte alle Pflichtfelder ausfuellen"
            /\ UNCHANGED << timeZone, inFlight, isGeneratingPdf, pdfJob >>
       ELSE /\ isGeneratingPdf' = TRUE
            /\ pdfJob' = Some(Export("downloadZUGFeRD"))
            /\ toast' = ""
    /\ lastExport' = None
    /\ UNCHANGED << timeZone, inFlight, upgradeModal >>

\* downloadPDF up to its first await
\* setIsGeneratingPdf(true) moved in front of the check of the form
downloadPDFFlagFirst ==
    /\ attemptedExport' = TRUE
    /\ isGeneratingPdf' = TRUE
    /\ IF ~isValid
       THEN /\ toast' = "Bitte alle Pflichtfelder ausfuellen"
            /\ UNCHANGED pdfJob
       ELSE /\ pdfJob' = Some(Export("downloadPDF"))
            /\ toast' = ""
    /\ lastExport' = None
    /\ UNCHANGED << timeZone, inFlight, upgradeModal >>

\* downloadPDF up to its try block
downloadPDF ==
    /\ attemptedExport' = TRUE
    /\ IF ~isValid
       THEN /\ toast' = "Bitte alle Pflichtfelder ausfuellen"
            /\ UNCHANGED << timeZone, inFlight, isGeneratingPdf, pdfJob >>
       ELSE /\ isGeneratingPdf' = TRUE
            /\ pdfJob' = Some(Export("downloadPDF"))
            /\ toast' = ""
    /\ lastExport' = None
    /\ UNCHANGED << timeZone, inFlight, upgradeModal >>

\* the export menu cannot be opened while isGeneratingPdf
handleExport(format) ==
    /\ ~dialogOpen
    /\ ~isGeneratingPdf
    /\ IF format = "zugferd" /\ ~canUseZUGFeRD
       THEN /\ upgradeModal' = "zugferd"
            /\ toast' = ""
            /\ lastExport' = None
            /\ UNCHANGED << timeZone, inFlight, attemptedExport, isGeneratingPdf, pdfJob >>
       ELSE CASE format = "xrechnung" -> downloadXML
              [] format = "zugferd"   -> downloadZUGFeRD
              [] format = "pdf"       -> downloadPDF
    /\ UNCHANGED << timeZone, inFlight, formVars, documentType, currentInvoiceId, hasUnsavedChanges,
                    showUnsavedWarning, faelligkeitManuallySet, saveTimerArmed,
                    validationResult, showValidationModal, isPro, invoicesCreated,
                    invoices, numberSettings, offerSettings, nextId, calcVars >>

\* the file is handed to the browser whether or not createZUGFeRDPDF failed
finishPdfAlwaysDownloads(succeeds) ==
    /\ pdfJob # None
    /\ lastExport' = pdfJob
    /\ IF succeeds
       THEN toast' = (IF pdfJob[1].kind = "downloadZUGFeRD" THEN "ZUGFeRD-PDF wurde erstellt"
                      ELSE "PDF wurde erstellt")
       ELSE toast' = (IF pdfJob[1].kind = "downloadZUGFeRD"
                      THEN "ZUGFeRD-Erstellung fehlgeschlagen"
                      ELSE "PDF-Erstellung fehlgeschlagen")
    /\ isGeneratingPdf' = FALSE
    /\ pdfJob' = None
    /\ UNCHANGED << timeZone, inFlight, formVars, documentType, currentInvoiceId, hasUnsavedChanges,
                    showUnsavedWarning, attemptedExport, faelligkeitManuallySet,
                    saveTimerArmed, validationResult, showValidationModal, upgradeModal,
                    isPro, invoicesCreated, invoices, numberSettings, offerSettings,
                    nextId, calcVars >>

\* the rest of downloadZUGFeRD and downloadPDF: the document is built from the
\* closure's form (createZUGFeRDPDF embeds generateZUGFeRDXML of it) and
\* downloaded, or a step throws; finally setIsGeneratingPdf(false)
finishPdf(succeeds) ==
    /\ pdfJob # None
    /\ IF succeeds
       THEN /\ lastExport' = pdfJob
            /\ toast' = (IF pdfJob[1].kind = "downloadZUGFeRD" THEN "ZUGFeRD-PDF wurde erstellt"
                         ELSE "PDF wurde erstellt")
       ELSE /\ toast' = (IF pdfJob[1].kind = "downloadZUGFeRD"
                         THEN "ZUGFeRD-Erstellung fehlgeschlagen"
                         ELSE "PDF-Erstellung fehlgeschlagen")
            /\ lastExport' = None
    /\ isGeneratingPdf' = FALSE
    /\ pdfJob' = None
    /\ UNCHANGED << timeZone, inFlight, formVars, documentType, currentInvoiceId, hasUnsavedChanges,
                    showUnsavedWarning, attemptedExport, faelligkeitManuallySet,
                    saveTimerArmed, validationResult, showValidationModal, upgradeModal,
                    isPro, invoicesCreated, invoices, numberSettings, offerSettings,
                    nextId, calcVars >>

(***************************************************************************)
(* The page in use: exporting                                              *)
(***************************************************************************)

NumberEdits == { e \in RechnungEdits : e[1] = "nummer" }

NextExport ==
    \/ autoSave
    \/ \E e \in RechnungEdits \ NumberEdits : handleRechnungChange(e[1], e[2])
    \/ \E e \in VerkaeuferEdits : handleVerkaeuferChange(e[1], e[2])
    \/ \E n \in ExampleNumbers : fillExampleData(n)
    \/ \E key \in LicenseKeys : activateLicense(key)
    \/ hideUpgradeModal
    \/ copyXML
    \/ \E format \in { "xrechnung", "zugferd", "pdf" } : handleExport(format)
    \/ \E succeeds \in BOOLEAN : finishPdf(succeeds)

SpecExport == Init /\ [][NextExport]_vars

\* the promises a running export waits for (the import of jspdf, the calls of
\* pdf-lib) settle, and the event loop then runs the rest of the handler
SpecExportFair ==
    SpecExport /\ WF_vars(\E succeeds \in BOOLEAN : finishPdf(succeeds))

(***************************************************************************)
(* The page in use: invoices and offers from the archive                   *)
(***************************************************************************)

\* the record saveToArchive has written for the demo data
\* the number of calls followed while they wait at an await
MaxInFlight == 2

\* the position of a call in inFlight, and inFlight without it
withoutCall(i) == SubSeq(inFlight, 1, i - 1) \o SubSeq(inFlight, i + 1, Len(inFlight))

\* saveToArchive up to its await: the branch is chosen from the values of the
\* render the handler was created in (currentInvoiceId, documentType,
\* pro.canCreateInvoice), and the record is built from the form of that render
beginSaveToArchive(saveAsNew) ==
    /\ ~dialogOpen
    /\ IF currentInvoiceId # None /\ ~saveAsNew
       THEN /\ Len(inFlight) < MaxInFlight
            /\ inFlight' = Append(inFlight, [ call |-> "saveToArchive",
                                              update |-> currentInvoiceId,
                                              fields |-> archiveFields ])
            /\ UNCHANGED upgradeModal
       ELSE IF documentType = "invoice" /\ ~canCreateInvoice
       THEN /\ upgradeModal' = "invoice-limit"
            /\ UNCHANGED inFlight
       ELSE /\ Len(inFlight) < MaxInFlight
            /\ inFlight' = Append(inFlight, [ call |-> "saveToArchive",
                                              update |-> None,
                                              fields |-> archiveFields ])
            /\ UNCHANGED upgradeModal
    /\ noOutput
    /\ UNCHANGED << timeZone, formVars, documentType, currentInvoiceId, hasUnsavedChanges,
                    showUnsavedWarning, attemptedExport, faelligkeitManuallySet,
                    saveTimerArmed, isGeneratingPdf, pdfJob, validationResult,
                    showValidationModal, isPro, invoicesCreated, invoices, numberSettings,
                    offerSettings, nextId, calcVars >>

\* saveToArchive after its await: db.invoices.update or db.invoices.add has
\* resolved; incrementInvoiceCount adds one to the counter as it is now
finishSaveToArchive(i) ==
    /\ inFlight[i].call = "saveToArchive"
    /\ inFlight' = withoutCall(i)
    /\ IF inFlight[i].update # None
       THEN /\ invoices' = { IF inv.id = inFlight[i].update[1]
                             THEN inFlight[i].fields @@ [ id |-> inv.id, status |-> inv.status ]
                             ELSE inv : inv \in invoices }
            /\ hasUnsavedChanges' = FALSE
            /\ toast' = "Dokument aktualisiert"
            /\ UNCHANGED << currentInvoiceId, invoicesCreated, nextId >>
       ELSE /\ nextId <= MaxRecords
            /\ invoices' = invoices \cup { inFlight[i].fields @@ [ id |-> nextId, status |-> "draft" ] }
            /\ nextId' = nextId + 1
            /\ currentInvoiceId' = Some(nextId)
            /\ hasUnsavedChanges' = FALSE
            /\ invoicesCreated' = (IF inFlight[i].fields.documentType = "invoice"
                                   THEN invoicesCreated + 1 ELSE invoicesCreated)
            /\ toast' = "Dokument im Archiv gespeichert"
    /\ lastExport' = None
    /\ UNCHANGED << timeZone, formVars, documentType, showUnsavedWarning, attemptedExport,
                    faelligkeitManuallySet, saveTimerArmed, isGeneratingPdf, pdfJob,
                    validationResult, showValidationModal, upgradeModal, isPro,
                    numberSettings, offerSettings, calcVars >>

\* autoGenerateNumber for an invoice, up to the first await of
\* generateInvoiceNumber: db.settings.get has read the row
beginGenerateInvoiceNumber ==
    /\ ~dialogOpen
    /\ documentType = "invoice"
    /\ Len(inFlight) < MaxInFlight
    /\ inFlight' = Append(inFlight, [ call |-> "generateInvoiceNumber",
                                      settings |-> numberSettings,
                                      stored |-> numberSettings # None ])
    /\ noOutput
    /\ UNCHANGED << timeZone, formVars, pageVars, validationResult, showValidationModal,
                    calcVars >>

\* generateInvoiceNumber found no row: it stores the default row and goes on
\* with it
storeDefaultSettings(i) ==
    /\ inFlight[i].call = "generateInvoiceNumber"
    /\ ~inFlight[i].stored
    /\ numberSettings' = Some(getDefaultSettings)
    /\ inFlight' = [ inFlight EXCEPT ![i] = [ call |-> "generateInvoiceNumber",
                                              settings |-> Some(getDefaultSettings),
                                              stored |-> TRUE ] ]
    /\ noOutput
    /\ UNCHANGED << timeZone, formVars, documentType, currentInvoiceId, hasUnsavedChanges,
                    showUnsavedWarning, attemptedExport, faelligkeitManuallySet,
                    saveTimerArmed, isGeneratingPdf, pdfJob, validationResult,
                    showValidationModal, upgradeModal, isPro, invoicesCreated, invoices,
                    offerSettings, nextId, calcVars >>

\* generateInvoiceNumber from the row it holds: the number is computed from
\* that row, the row is written back with it, and autoGenerateNumber puts the
\* number into the form
finishGenerateInvoiceNumber(i) ==
    /\ inFlight[i].call = "generateInvoiceNumber"
    /\ inFlight[i].stored
    /\ LET settings == inFlight[i].settings[1]
           nextNumber == nextNumberOf(settings)
       IN /\ nextNumber <= MaxNumber
          /\ numberSettings' = Some([ settings EXCEPT !.lastYear = currentYear,
                                                      !.lastNumber = nextNumber ])
          /\ rechnung' = [ rechnung EXCEPT !.nummer = formatNumber(settings, nextNumber) ]
    /\ inFlight' = withoutCall(i)
    /\ toast' = "Rechnungsnummer generiert"
    /\ saveTimerArmed' = TRUE
    /\ lastExport' = None
    /\ UNCHANGED << timeZone, verkaeufer, kaeufer, positionen, documentType, currentInvoiceId,
                    hasUnsavedChanges, showUnsavedWarning, attemptedExport,
                    faelligkeitManuallySet, isGeneratingPdf, pdfJob, validationResult,
                    showValidationModal, upgradeModal, isPro, invoicesCreated, invoices,
                    offerSettings, nextId, calcVars >>

storedDocument(id, type, number) ==
    [ id |-> id, status |-> "draft", invoiceNumber |-> number,
      customerName |-> exampleKaeufer.firma,
      totalGross |-> bruttoOf(calculateSummen(examplePositionen)),
      documentType |-> type,
      data |-> [ rechnung |-> [ exampleRechnung(1) EXCEPT !.nummer = number ],
                 verkaeufer |-> exampleVerkaeufer, kaeufer |-> exampleKaeufer,
                 positionen |-> examplePositionen ] ]

\* a later visit: the archive holds an offer and an invoice
InitOffer ==
    /\ timeZone = "Europe/Berlin"
    /\ InitForm
    /\ InitPageWith(FALSE,
                    { storedDocument(1, "offer", formatNumber(getDefaultOfferSettings, 1)),
                      storedDocument(2, "invoice", formatNumber(getDefaultSettings, 1)) })

NextOffer ==
    \/ autoSave
    \/ \E invoice \in invoices : loadFromArchive(invoice)
    \/ confirmLoadFromArchive
    \/ cancelLoadFromArchive
    \/ \E invoice \in invoices : duplicateInvoice(invoice)
    \/ \E offer \in invoices : convertOfferToInvoice(offer)
    \/ \E type \in { "invoice", "offer" } : switchDocumentType(type)
    \/ \E key \in LicenseKeys : activateLicense(key)
    \/ deactivateLicense
    \/ hideUpgradeModal
    \/ \E format \in { "xrechnung", "zugferd", "pdf" } : handleExport(format)
    \/ \E succeeds \in BOOLEAN : finishPdf(succeeds)

SpecOffer == InitOffer /\ [][NextOffer]_vars

(***************************************************************************)
(* The page in use: document numbers and the archive                       *)
(***************************************************************************)

\* a licensed user with an empty database
InitArchive == timeZone = "Europe/Berlin" /\ InitForm /\ InitPageWith(TRUE, { })

NextArchive ==
    \/ \E e \in NumberEdits : handleRechnungChange(e[1], e[2])
    \/ resetForm
    \/ autoGenerateNumber
    \/ saveToArchive(FALSE)
    \/ \E invoice \in invoices : duplicateInvoice(invoice)
    \/ \E offer \in invoices : convertOfferToInvoice(offer)
    \/ \E type \in { "invoice", "offer" } : switchDocumentType(type)

SpecArchive == InitArchive /\ [][NextArchive]_vars

(***************************************************************************)
(* The page in use: saving while an earlier save is still running          *)
(***************************************************************************)

\* with or without a license, an empty database, and a usage counter for the
\* month anywhere up to the free limit
InitSave ==
    /\ timeZone = "Europe/Berlin"
    /\ InitForm
    /\ \E licensed \in BOOLEAN, created \in 0..invoicesPerMonth :
           InitPageFor(licensed, { }, created, None)

NextSave ==
    \/ \E e \in NumberEdits : handleRechnungChange(e[1], e[2])
    \/ resetForm
    \/ beginSaveToArchive(FALSE)
    \/ \E i \in DOMAIN inFlight : finishSaveToArchive(i)

SpecSave == InitSave /\ [][NextSave]_vars

(***************************************************************************)
(* The page in use: invoice numbers, one call after the other and calls    *)
(* that overlap, in a database last used this year or last year            *)
(***************************************************************************)

\* the row 'invoice-number-settings' found at start: none, or the default row
\* as earlier calls and the settings dialog left it
StoredSettings ==
    { None } \cup
    { Some([ getDefaultSettings EXCEPT !.lastYear = year, !.lastNumber = number,
                                       !.resetOnYearChange = reset ]) :
        year \in { currentYear - 1, currentYear }, number \in 0..1, reset \in BOOLEAN }

InitNumber ==
    /\ timeZone = "Europe/Berlin"
    /\ InitForm
    /\ \E settings \in StoredSettings : InitPageFor(FALSE, { }, 0, settings)

NextNumber ==
    \/ \E e \in NumberEdits : handleRechnungChange(e[1], e[2])
    \/ resetForm
    \/ autoGenerateNumber
    \/ beginGenerateInvoiceNumber
    \/ \E i \in DOMAIN inFlight : storeDefaultSettings(i)
    \/ \E i \in DOMAIN inFlight : finishGenerateInvoiceNumber(i)

SpecNumber == InitNumber /\ [][NextNumber]_vars

(***************************************************************************)
(* The issue date and the due date edited, in either time zone             *)
(***************************************************************************)

\* the dates typed into the issue date field: before, within and after the
\* two weeks that end with the change to summer time, before the change to
\* winter time, at the end of the year, and the cleared field
IssueDates ==
    { << >>,
      << "2", "0", "2", "6", "-", "0", "2", "-", "2", "0" >>,
      << "2", "0", "2", "6", "-", "0", "3", "-", "2", "0" >>,
      << "2", "0", "2", "6", "-", "0", "3", "-", "3", "0" >>,
      << "2", "0", "2", "6", "-", "1", "0", "-", "2", "0" >>,
      << "2", "0", "2", "6", "-", "1", "2", "-", "2", "5" >> }

\* the dates typed into the due date field
DueDates ==
    { << >>,
      << "2", "0", "2", "6", "-", "0", "4", "-", "0", "3" >>,
      << "2", "0", "2", "6", "-", "0", "6", "-", "3", "0" >> }

InitDue ==
    /\ timeZone \in TimeZones
    /\ InitForm
    /\ InitPage

NextDue ==
    \/ \E value \in IssueDates : handleRechnungChange("datum", value)
    \/ \E value \in DueDates : handleFaelligkeitChange(value)
    \/ resetForm

SpecDue == InitDue /\ [][NextDue]_vars

(***************************************************************************)
(* The page in use: documents saved with their dates and opened again      *)
(***************************************************************************)

\* the issue date and the due date of the documents that are saved: a date
\* other than today, and a due date other than two weeks after it
SavedIssueDates == { << "2", "0", "2", "6", "-", "0", "2", "-", "2", "0" >> }

SavedDueDates == { << "2", "0", "2", "6", "-", "0", "4", "-", "0", "3" >> }

NextLoad ==
    \/ autoSave
    \/ \E value \in SavedIssueDates : handleRechnungChange("datum", value)
    \/ \E value \in SavedDueDates : handleFaelligkeitChange(value)
    \/ resetForm
    \/ saveToArchive(FALSE)
    \/ \E invoice \in invoices : loadFromArchive(invoice)
    \/ confirmLoadFromArchive
    \/ cancelLoadFromArchive

SpecLoad == Init /\ [][NextLoad]_vars

(***************************************************************************)
(* What the specification says about line items, stated on the input       *)
(***************************************************************************)

\* a line item is complete: description non-empty, quantity > 0, price > 0
CompleteLine(p) == p.bezeichnung # << >> /\ p.menge > 0 /\ p.preis > 0

CompleteLines(ps) == SelectSeq(ps, CompleteLine)

\* the tax bucket a rate is counted in
BucketOf(rate) == IF rate \in { 7, 19 } THEN rate ELSE 0

\* the sum of quantity * price over the complete lines of a bucket, added up
\* in list order
RECURSIVE BucketNet(_, _)
BucketNet(ps, bucket) ==
    IF ps = << >> THEN FZero
    ELSE LET last == ps[Len(ps)]
             init == BucketNet(SubSeq(ps, 1, Len(ps) - 1), bucket)
         IN IF CompleteLine(last) /\ BucketOf(last.ust) = bucket
            THEN FAdd(init, FMul(FDecimal(last.menge, 100), FDecimal(last.preis, 100)))
            ELSE init

\* a text of digits with exactly 2 decimals
TwoDecimals(s) ==
    /\ Len(s) >= 4
    /\ s[Len(s) - 2] = "."
    /\ \A i \in DOMAIN s : i # Len(s) - 2 => IsDigit(s[i])

\* C4: a line item with empty description, or quantity <= 0, or price <= 0
\* contributes zero to every aggregate (the display's totals and both
\* generators' amounts are those of the complete lines alone, and all zero
\* when no line is complete) and produces no InvoiceLine and no
\* IncludedSupplyChainTradeLineItem.
C4_CompletenessFilter ==
    LET cl == CompleteLines(positionen) IN
    /\ summen # None =>
         /\ summen[1] = calculateSummen(cl)
         /\ cl = << >> => /\ summen[1].netto = FZero /\ summen[1].lohn = FZero
                          /\ summen[1].material = FZero
                          /\ summen[1].ust19 = FZero /\ summen[1].ust7 = FZero
    /\ xrechnungXML # None =>
         /\ xrechnungXML[1] = generateXRechnungXML(rechnung, verkaeufer, kaeufer, cl)
         /\ Len(xrechnungXML[1].InvoiceLines) = Len(cl)
         /\ \A i \in DOMAIN cl :
               xrechnungXML[1].InvoiceLines[i].Name = escapeXML(cl[i].bezeichnung)
         /\ \A b \in { 19, 7, 0 } :
               xrechnungTotals(positionen)[IF b = 19 THEN "netto19"
                                           ELSE IF b = 7 THEN "netto7" ELSE "netto0"]
                 = BucketNet(cl, b)
         /\ cl = << >> => xrechnungXML[1].LegalMonetaryTotal.PayableAmount
                            = << "0", ".", "0", "0" >>
    /\ zugferdXML # None =>
         /\ zugferdXML[1] = generateZUGFeRDXML(rechnung, verkaeufer, kaeufer, cl)
         /\ Len(zugferdXML[1].LineItems) = Len(cl)
         /\ \A i \in DOMAIN cl :
               zugferdXML[1].LineItems[i].Name = escapeXML(cl[i].bezeichnung)
         /\ \A b \in { 19, 7, 0 } :
               zugferdTotals(positionen)[IF b = 19 THEN "netto19"
                                         ELSE IF b = 7 THEN "netto7" ELSE "netto0"]
                 = BucketNet(cl, b)
         /\ cl = << >> => zugferdXML[1].MonetarySummation.DuePayableAmount
                            = << "0", ".", "0", "0" >>

\* all three have run on a list that holds a line without description, a line
\* with quantity or price <= 0, and a complete line
C4_Witness ==
    /\ summen # None /\ xrechnungXML # None /\ zugferdXML # None
    /\ \E i \in DOMAIN positionen :
          positionen[i].bezeichnung = << >> /\ positionen[i].menge > 0 /\ positionen[i].preis > 0
    /\ \E i \in DOMAIN positionen : positionen[i].menge <= 0 \/ positionen[i].preis <= 0
    /\ \E i \in DOMAIN positionen : CompleteLine(positionen[i])
    /\ Len(xrechnungXML[1].InvoiceLines) = 1 /\ Len(zugferdXML[1].LineItems) = 1

\* C5: for every line-item list (also with tax rates outside {0, 7, 19}) the net
\* total, the total tax and the gross total of the display (calculateSummen and
\* brutto), of generateXRechnungXML, of generateZUGFeRDXML and of
\* validateXRechnung are equal, here compared after rounding to cents.
C5_TotalsAgree ==
    LET w == validationTotals(positionen) IN
    (summen # None /\ xrechnungXML # None /\ zugferdXML # None) =>
       LET d == summen[1]
           x == xrechnungXML[1]
           z == zugferdXML[1]
       IN
       /\ toFixed2(d.netto) = x.LegalMonetaryTotal.TaxExclusiveAmount
       /\ toFixed2(d.netto) = z.MonetarySummation.TaxBasisTotalAmount
       /\ toFixed2(d.netto) = toFixed2(w.nettoGesamt)
       /\ toFixed2(FAdd(d.ust19, d.ust7)) = x.TaxTotal.TaxAmount
       /\ toFixed2(FAdd(d.ust19, d.ust7)) = z.MonetarySummation.TaxTotalAmount
       /\ toFixed2(FAdd(d.ust19, d.ust7)) = toFixed2(FAdd(w.ust19, w.ust7))
       /\ toFixed2(bruttoOf(d)) = x.LegalMonetaryTotal.PayableAmount
       /\ toFixed2(bruttoOf(d)) = z.MonetarySummation.GrandTotalAmount
       /\ toFixed2(bruttoOf(d)) = toFixed2(w.brutto)

\* net and gross total of the complete lines of a list
ExpectedTotals(ps) ==
    CHOOSE t \in
      { [ net   |-> FAdd(FAdd(n[1], n[2]), n[3]),
          gross |-> FAdd(FAdd(FAdd(FAdd(n[1], n[2]), n[3]), FMul(n[1], FDecimal(19, 100))),
                         FMul(n[2], FDecimal(7, 100))) ] :
        n \in { << BucketNet(ps, 19), BucketNet(ps, 7), BucketNet(ps, 0) >> } } : TRUE

\* C6: in both generators netTotal = net19 + net7 + net0 and grossTotal =
\* netTotal + 19 % of net19 + 7 % of net7; LineExtensionAmount and
\* TaxExclusiveAmount carry netTotal, TaxInclusiveAmount and PayableAmount carry
\* grossTotal, with 2 decimals; one line of 2 x 100 at 19 % gives 238.00.
C6_MonetaryTotals ==
    \A t \in { ExpectedTotals(positionen) },
       oneLine \in { Len(positionen) = 1 /\ positionen[1].menge = 200
                       /\ positionen[1].preis = 10000 /\ positionen[1].ust = 19
                       /\ positionen[1].bezeichnung # << >> } :
    /\ xrechnungXML # None =>
         \A m \in { xrechnungXML[1].LegalMonetaryTotal },
            x \in { xrechnungTotals(positionen) },
            net \in { toFixed2(t.net) }, gross \in { toFixed2(t.gross) } :
         /\ x.nettoGesamt = t.net
         /\ x.brutto = t.gross
         /\ m.LineExtensionAmount = net /\ m.TaxExclusiveAmount = net
         /\ m.TaxInclusiveAmount = gross /\ m.PayableAmount = gross
         /\ \A f \in DOMAIN m : TwoDecimals(m[f])
         /\ oneLine => m.PayableAmount = << "2", "3", "8", ".", "0", "0" >>
    /\ zugferdXML # None =>
         \A m \in { zugferdXML[1].MonetarySummation },
            z \in { zugferdTotals(positionen) },
            net \in { toFixed2(t.net) }, gross \in { toFixed2(t.gross) } :
         /\ z.nettoGesamt = t.net
         /\ z.brutto = t.gross
         /\ m.LineTotalAmount = net /\ m.TaxBasisTotalAmount = net
         /\ m.GrandTotalAmount = gross /\ m.DuePayableAmount = gross
         /\ \A f \in DOMAIN m : TwoDecimals(m[f])
         /\ oneLine => m.DuePayableAmount = << "2", "3", "8", ".", "0", "0" >>

\* both generators have run on a list with complete lines at 19 %, at 7 % and
\* at 0 %
C6_Witness ==
    /\ xrechnungXML # None /\ zugferdXML # None
    /\ \A b \in { 19, 7, 0 } :
          \E i \in DOMAIN positionen :
             CompleteLine(positionen[i]) /\ positionen[i].ust = b
    /\ xrechnungXML[1].LegalMonetaryTotal.PayableAmount
         = zugferdXML[1].MonetarySummation.DuePayableAmount
    /\ xrechnungXML[1].LegalMonetaryTotal.PayableAmount
         # xrechnungXML[1].LegalMonetaryTotal.TaxExclusiveAmount

\* the entries the tax breakdown is to hold: <<percent, category>> for each
\* bucket with a non-zero basis
ExpectedBreakdown(ps) ==
    (IF BucketNet(ps, 19) # FZero THEN << << << "1", "9" >>, "S" >> >> ELSE << >>)
    \o (IF BucketNet(ps, 7) # FZero THEN << << << "7" >>, "S" >> >> ELSE << >>)
    \o (IF BucketNet(ps, 0) # FZero THEN << << << "0" >>, "Z" >> >> ELSE << >>)

\* C8: the tax breakdown (TaxSubtotal in XRechnung, header ApplicableTradeTax in
\* CII) holds exactly one entry for each of the buckets 19 %, 7 % and 0 % whose
\* net basis is non-zero and none for a bucket whose basis is zero; the 0 %
\* entry has category Z, the 19 % and 7 % entries have category S.
C8_TaxBreakdownPerBucket ==
    /\ xrechnungXML # None =>
         [ i \in DOMAIN xrechnungXML[1].TaxTotal.TaxSubtotals |->
             << xrechnungXML[1].TaxTotal.TaxSubtotals[i].Percent,
                xrechnungXML[1].TaxTotal.TaxSubtotals[i].ID >> ]
           = ExpectedBreakdown(positionen)
    /\ zugferdXML # None =>
         [ i \in DOMAIN zugferdXML[1].ApplicableTradeTax |->
             << zugferdXML[1].ApplicableTradeTax[i].RateApplicablePercent,
                zugferdXML[1].ApplicableTradeTax[i].CategoryCode >> ]
           = ExpectedBreakdown(positionen)

\* C9: for every complete line the per-line tax category written by either
\* generator is Z when the line's rate is 0 and S otherwise, together with the
\* line's own rate as percent.
C9_LineTaxCategory ==
    LET cl == CompleteLines(positionen) IN
    /\ xrechnungXML # None =>
         /\ Len(xrechnungXML[1].InvoiceLines) = Len(cl)
         /\ \A i \in DOMAIN cl :
               /\ xrechnungXML[1].InvoiceLines[i].ClassifiedTaxCategory.ID
                    = (IF cl[i].ust = 0 THEN "Z" ELSE "S")
               /\ xrechnungXML[1].InvoiceLines[i].ClassifiedTaxCategory.Percent
                    = natToString(cl[i].ust)
    /\ zugferdXML # None =>
         /\ Len(zugferdXML[1].LineItems) = Len(cl)
         /\ \A i \in DOMAIN cl :
               /\ zugferdXML[1].LineItems[i].ApplicableTradeTax.CategoryCode
                    = (IF cl[i].ust = 0 THEN "Z" ELSE "S")
               /\ zugferdXML[1].LineItems[i].ApplicableTradeTax.RateApplicablePercent
                    = natToString(cl[i].ust)

(***************************************************************************)
(* What the specification says about validation results and the buyer      *)
(* reference                                                               *)
(***************************************************************************)

\* C1: validateXRechnung returns isValid = true exactly when its errors list
\* is empty, whatever the warnings and infos lists hold.
C1_ValidIffNoErrors ==
    validationResult # None =>
        (validationResult[1].isValid <=> validationResult[1].errors = << >>)

\* a valid document whose report carries warnings and infos
C1_Witness ==
    /\ validationResult # None
    /\ validationResult[1].isValid
    /\ validationResult[1].warnings # << >>
    /\ validationResult[1].infos # << >>

\* C10: generateXRechnungXML writes a BuyerReference equal to the Leitweg-ID
\* when it is non-empty, otherwise the buyer's customer number when that is
\* non-empty, otherwise 'n/a'; it is never empty.
C10_BuyerReference ==
    xrechnungXML # None =>
        /\ xrechnungXML[1].BuyerReference # << >>
        /\ xrechnungXML[1].BuyerReference =
             (IF rechnung.leitwegId # << >> THEN rechnung.leitwegId
              ELSE IF kaeufer.kundennummer # << >> THEN kaeufer.kundennummer
              ELSE << "n", "/", "a" >>)

\* the text a field holds when it went through escapeXML, for an optional
\* field that is written only when its value is non-empty
EscapedOptional(value) == IF value # << >> THEN << escapeXML(value) >> ELSE << >>

\* C11: every string field that generateXRechnungXML or generateZUGFeRDXML
\* writes (number, dates, type code, Leitweg-ID, party names, addresses, tax
\* IDs, e-mails, IBAN, BIC, order reference, line descriptions) is the
\* escapeXML of the form's value, so no raw & < > " ' of an input reaches
\* the output.
C11_EveryFieldEscaped ==
    /\ xrechnungXML # None =>
         LET x == xrechnungXML[1] IN
         /\ x.ID = escapeXML(rechnung.nummer)
         /\ x.IssueDate = escapeXML(rechnung.datum)
         /\ x.DueDate = EscapedOptional(rechnung.faelligkeit)
         /\ x.InvoiceTypeCode = escapeXML(substring(rechnung.art, 0, 3))
         /\ rechnung.leitwegId # << >> => x.BuyerReference = escapeXML(rechnung.leitwegId)
         /\ x.AccountingSupplierParty.RegistrationName = escapeXML(verkaeufer.firma)
         /\ x.AccountingSupplierParty.StreetName = escapeXML(verkaeufer.strasse)
         /\ x.AccountingSupplierParty.CityName = escapeXML(verkaeufer.ort)
         /\ x.AccountingSupplierParty.PostalZone = escapeXML(verkaeufer.plz)
         /\ x.AccountingSupplierParty.PartyTaxScheme = EscapedOptional(verkaeufer.ustId)
         /\ x.AccountingCustomerParty.RegistrationName = escapeXML(kaeufer.firma)
         /\ x.AccountingCustomerParty.StreetName = escapeXML(kaeufer.strasse)
         /\ x.AccountingCustomerParty.CityName = escapeXML(kaeufer.ort)
         /\ x.AccountingCustomerParty.PostalZone = escapeXML(kaeufer.plz)
         /\ x.AccountingCustomerParty.PartyTaxScheme = EscapedOptional(kaeufer.ustId)
         /\ \A m \in Range(x.PaymentMeans) :
                m.ID = escapeXML(removeWhitespace(verkaeufer.iban))
         /\ Len(x.InvoiceLines) = Len(CompleteLines(positionen))
         /\ \A i \in DOMAIN x.InvoiceLines :
                x.InvoiceLines[i].Name = escapeXML(CompleteLines(positionen)[i].bezeichnung)
    /\ zugferdXML # None =>
         LET z == zugferdXML[1] IN
         /\ z.ID = escapeXML(rechnung.nummer)
         /\ z.BuyerReference = EscapedOptional(rechnung.leitwegId)
         /\ z.SellerTradeParty.Name = escapeXML(verkaeufer.firma)
         /\ z.SellerTradeParty.LineOne = escapeXML(verkaeufer.strasse)
         /\ z.SellerTradeParty.CityName = escapeXML(verkaeufer.ort)
         /\ z.SellerTradeParty.PostcodeCode = escapeXML(verkaeufer.plz)
         /\ z.SellerTradeParty.Email = EscapedOptional(verkaeufer.email)
         /\ z.SellerTradeParty.TaxRegistrationVA = EscapedOptional(verkaeufer.ustId)
         /\ z.SellerTradeParty.TaxRegistrationFC = EscapedOptional(verkaeufer.steuernummer)
         /\ z.BuyerTradeParty.Name = escapeXML(kaeufer.firma)
         /\ z.BuyerTradeParty.LineOne = escapeXML(kaeufer.strasse)
         /\ z.BuyerTradeParty.CityName = escapeXML(kaeufer.ort)
         /\ z.BuyerTradeParty.PostcodeCode = escapeXML(kaeufer.plz)
         /\ z.BuyerTradeParty.Email = EscapedOptional(kaeufer.email)
         /\ z.BuyerTradeParty.TaxRegistrationVA = EscapedOptional(kaeufer.ustId)
         /\ z.BuyerOrderReferencedDocument = EscapedOptional(rechnung.bestellnummer)
         /\ \A m \in Range(z.PaymentMeans) :
                /\ m.IBANID = escapeXML(removeWhitespace(verkaeufer.iban))
                /\ m.BICID = EscapedOptional(removeWhitespace(verkaeufer.bic))
         /\ Len(z.LineItems) = Len(CompleteLines(positionen))
         /\ \A i \in DOMAIN z.LineItems :
                z.LineItems[i].Name = escapeXML(CompleteLines(positionen)[i].bezeichnung)

\* the five entities and the characters they stand for
Entities ==
    << << << "&", "a", "m", "p", ";" >>, "&" >>,
       << << "&", "l", "t", ";" >>, "<" >>,
       << << "&", "g", "t", ";" >>, ">" >>,
       << << "&", "q", "u", "o", "t", ";" >>, "\"" >>,
       << << "&", "a", "p", "o", "s", ";" >>, "'" >> >>

\* the entities a text begins with (at most one)
EntitiesAtHead(s) ==
    { e \in Range(Entities) : Len(s) >= Len(e[1]) /\ SubSeq(s, 1, Len(e[1])) = e[1] }

\* a text with every entity replaced by its character, read from the left
RECURSIVE decodeEntities(_)
decodeEntities(s) ==
    IF s = << >> THEN << >>
    ELSE IF EntitiesAtHead(s) # { }
    THEN LET e == CHOOSE x \in EntitiesAtHead(s) : TRUE
         IN << e[2] >> \o decodeEntities(SubSeq(s, Len(e[1]) + 1, Len(s)))
    ELSE << Head(s) >> \o decodeEntities(Tail(s))

\* C12: decoding the five entities in escapeXML(s) yields s again, for every
\* text s over an alphabet with & < > " ' and ordinary characters.
C12_EscapeRoundTrip ==
    /\ xrechnungXML # None => decodeEntities(xrechnungXML[1].ID) = rechnung.nummer
    /\ zugferdXML # None => decodeEntities(zugferdXML[1].ID) = rechnung.nummer

\* a number that itself holds the text of an entity has been written
C12_Witness ==
    /\ xrechnungXML # None
    /\ rechnung.nummer = << "&", "l", "t", ";" >>
    /\ xrechnungXML[1].ID = << "&", "a", "m", "p", ";", "l", "t", ";" >>

\* C13: for k complete lines both generators write exactly k line elements,
\* in the order of the input, with the IDs 1..k, whatever the stored ids are
\* and however many incomplete lines lie between them.
C13_LineNumbering ==
    LET complete == CompleteLines(positionen) IN
    /\ xrechnungXML # None =>
         LET ls == xrechnungXML[1].InvoiceLines IN
         /\ Len(ls) = Len(complete)
         /\ \A i \in DOMAIN ls :
               /\ ls[i].ID = natToString(i)
               /\ ls[i].Name = escapeXML(complete[i].bezeichnung)
               /\ ls[i].PriceAmount = preisToFixed2(complete[i].preis)
    /\ zugferdXML # None =>
         LET ls == zugferdXML[1].LineItems IN
         /\ Len(ls) = Len(complete)
         /\ \A i \in DOMAIN ls :
               /\ ls[i].LineID = natToString(i)
               /\ ls[i].Name = escapeXML(complete[i].bezeichnung)
               /\ ls[i].ChargeAmount = preisToFixed2(complete[i].preis)

\* an incomplete line between two complete ones, whose stored ids are not in
\* ascending order, has been written by both generators
C13_Witness ==
    /\ xrechnungXML # None /\ zugferdXML # None
    /\ Len(positionen) = 3
    /\ CompleteLine(positionen[1]) /\ ~CompleteLine(positionen[2]) /\ CompleteLine(positionen[3])
    /\ positionen[1].id = "h" /\ positionen[3].id = "a"
    /\ xrechnungXML[1].InvoiceLines[2].ID = << "2" >>
    /\ zugferdXML[1].LineItems[2].LineID = << "2" >>

\* the report on the empty form the page starts with
EmptyFormReport ==
    validateXRechnung(createInitialRechnung(today, in14Days), createInitialVerkaeufer,
                      createInitialKaeufer, << >>)

\* the fields of the form whose value is not the one of the empty form
ChangedFields ==
    { "rechnung." \o f :
        f \in { g \in DOMAIN rechnung : rechnung[g] # createInitialRechnung(today, in14Days)[g] } }
    \cup { "verkaeufer." \o f :
        f \in { g \in DOMAIN verkaeufer : verkaeufer[g] # createInitialVerkaeufer[g] } }
    \cup { "kaeufer." \o f :
        f \in { g \in DOMAIN kaeufer : kaeufer[g] # createInitialKaeufer[g] } }
    \cup (IF positionen = << >> THEN { }
          ELSE { "positionen" }
               \cup { positionField(i, n) :
                        i \in 0..Len(positionen), n \in { "menge", "preis", "bezeichnung" } })

\* the fields the rule of a message reads
RuleFields(msg) ==
    IF msg.code = "BR-CO-09" THEN { "verkaeufer.ustId", "verkaeufer.steuernummer" }
    ELSE { msg.field }

\* how many messages of a list carry a code
CountOf(msgs, code) == Cardinality({ i \in DOMAIN msgs : msgs[i].code = code })

\* C14: the validation checks are independent and cumulative: filling in
\* fields of an otherwise empty invoice never changes the number of errors
\* of a rule that does not read these fields, and so never increases it.
C14_IndependentRules ==
    validationResult # None =>
        \A e \in Range(validationResult[1].errors) \cup Range(EmptyFormReport.errors) :
            RuleFields(e) \cap ChangedFields = { } =>
                CountOf(validationResult[1].errors, e.code)
                  = CountOf(EmptyFormReport.errors, e.code)

\* the empty form with only the invoice number filled in has been validated:
\* BR-01 is gone and the other errors of the empty form are all reported
C14_Witness ==
    /\ validationResult # None
    /\ ChangedFields = { "rechnung.nummer" }
    /\ CountOf(validationResult[1].errors, "BR-01") = 0
    /\ CountOf(EmptyFormReport.errors, "BR-01") = 1
    /\ Len(validationResult[1].errors) = Len(EmptyFormReport.errors) - 1
    /\ Len(validationResult[1].errors) > 1

\* the codes of the messages about a single line
PerLineCodes == { "BR-22", "BR-26", "BR-25", "BR-CO-04" }

\* the per-line messages the complete lines call for, the lines being counted
\* from 0 among the complete ones
ExpectedLineMessages(complete) ==
    { Msg("BR-25", positionField(i - 1, "bezeichnung"), "error") :
        i \in { j \in DOMAIN complete : IsBlank(complete[j].bezeichnung) } }
    \cup { Msg("BR-CO-04", positionField(i - 1, "ust"), "warning") :
        i \in { j \in DOMAIN complete : complete[j].ust \notin { 0, 7, 19 } } }

\* C15: validateXRechnung raises no per-line message (BR-22, BR-26, BR-25,
\* BR-CO-04) for an incomplete line, and raises BR-16 exactly once when there
\* is no complete line and not at all when there is one.
C15_IncompleteLinesSilent ==
    validationResult # None =>
        LET report   == validationResult[1]
            complete == CompleteLines(positionen)
        IN /\ { m \in Range(report.errors \o report.warnings) : m.code \in PerLineCodes }
                = ExpectedLineMessages(complete)
           /\ CountOf(report.errors, "BR-16") = (IF complete = << >> THEN 1 ELSE 0)
           /\ CountOf(report.warnings, "BR-16") = 0

\* a list of a line with a negative price and a complete line with a rate of
\* 16 % has been validated: BR-CO-04 for the complete line, nothing for the
\* other one, no BR-16
C15_Witness ==
    /\ validationResult # None
    /\ Len(positionen) = 2
    /\ positionen[1].preis < 0
    /\ CompleteLine(positionen[2]) /\ positionen[2].ust = 16
    /\ CountOf(validationResult[1].warnings, "BR-CO-04") = 1
    /\ CountOf(validationResult[1].errors, "BR-26") = 0
    /\ CountOf(validationResult[1].errors, "BR-16") = 0

\* a postal code known to be well-formed
WellFormedPlz == << "8", "0", "3", "3", "1" >>

\* exactly 5 digits
FiveDigits(plz) == Len(plz) = 5 /\ \A i \in 1..5 : IsDigit(plz[i])

\* exactly 5 digits with nothing but whitespace around them
FiveDigitsTrimmed(plz) ==
    \E i \in 1..Len(plz) :
        /\ i + 4 <= Len(plz)
        /\ FiveDigits(SubSeq(plz, i, i + 4))
        /\ \A j \in (1..Len(plz)) \ (i..(i + 4)) : IsSpace(plz[j])

\* nothing but whitespace, or nothing at all
Blank(text) == \A i \in 1..Len(text) : IsSpace(text[i])

\* the report on the document with another postal code for seller and buyer
ReportWithPlz(sellerPlz, buyerPlz) ==
    validateXRechnung(rechnung, [ verkaeufer EXCEPT !.plz = sellerPlz ],
                      [ kaeufer EXCEPT !.plz = buyerPlz ], positionen)

\* what the report says about a postal code: malformed means one format
\* warning and no error, with the errors and isValid of the document with a
\* well-formed postal code; missing means one error and no format warning
PostalCodeRule(report, reference, plz, missing, wellFormed, errorCode, warningCode) ==
    /\ ~missing /\ ~wellFormed =>
          /\ CountOf(report.warnings, warningCode) = 1
          /\ CountOf(report.errors, errorCode) = 0
          /\ report.errors = reference.errors
          /\ report.isValid = reference.isValid
    /\ missing =>
          /\ CountOf(report.errors, errorCode) = 1
          /\ CountOf(report.warnings, warningCode) = 0

\* C16 as stated: for seller and buyer alike, a non-empty postal code that is
\* not exactly 5 digits adds one warning (BR-07-FORMAT / BR-11-FORMAT) and no
\* error, so isValid is that of the document with a well-formed postal code;
\* an empty postal code adds the error (BR-07 / BR-11) and no format warning.
C16_PostalCodeAsStated ==
    validationResult # None =>
        /\ PostalCodeRule(validationResult[1], ReportWithPlz(WellFormedPlz, kaeufer.plz),
                          verkaeufer.plz, verkaeufer.plz = << >>, FiveDigits(verkaeufer.plz),
                          "BR-07", "BR-07-FORMAT")
        /\ PostalCodeRule(validationResult[1], ReportWithPlz(verkaeufer.plz, WellFormedPlz),
                          kaeufer.plz, kaeufer.plz = << >>, FiveDigits(kaeufer.plz),
                          "BR-11", "BR-11-FORMAT")

\* C16, amended: a postal code is missing when it is empty or holds only
\* whitespace, and well-formed when it is 5 digits with at most whitespace
\* around them.  A postal code that is neither adds one warning and no error
\* and isValid is that of the document with a well-formed postal code; a
\* missing one adds the error and no format warning.
C16_PostalCode ==
    validationResult # None =>
        /\ PostalCodeRule(validationResult[1], ReportWithPlz(WellFormedPlz, kaeufer.plz),
                          verkaeufer.plz, Blank(verkaeufer.plz),
                          FiveDigitsTrimmed(verkaeufer.plz), "BR-07", "BR-07-FORMAT")
        /\ PostalCodeRule(validationResult[1], ReportWithPlz(verkaeufer.plz, WellFormedPlz),
                          kaeufer.plz, Blank(kaeufer.plz),
                          FiveDigitsTrimmed(kaeufer.plz), "BR-11", "BR-11-FORMAT")

\* the demo data with the buyer's postal code 1234 has been validated: one
\* warning, and the document is valid
C16_Witness ==
    /\ validationResult # None
    /\ kaeufer.plz = << "1", "2", "3", "4" >>
    /\ CountOf(validationResult[1].warnings, "BR-11-FORMAT") = 1
    /\ validationResult[1].isValid

\* how many messages of a list are about a field
CountOn(msgs, field) == Cardinality({ i \in DOMAIN msgs : msgs[i].field = field })

\* what the report says about an optional field with a format: missing means
\* the absence warning alone, with the errors and isValid of the document
\* with a well-formed value; well-formed means no message; otherwise the
\* format error alone, and the document is not valid
OptionalFieldRule(report, reference, field, value, wellFormed, absenceCode, formatCode) ==
    /\ Blank(value) =>
          /\ CountOn(report.warnings, field) = 1
          /\ CountOf(report.warnings, absenceCode) = 1
          /\ CountOn(report.errors, field) = 0
          /\ report.errors = reference.errors
          /\ report.isValid = reference.isValid
    /\ ~Blank(value) /\ wellFormed =>
          /\ CountOn(report.warnings, field) = 0
          /\ CountOn(report.errors, field) = 0
          /\ CountOn(report.infos, field) = 0
    /\ ~Blank(value) /\ ~wellFormed =>
          /\ CountOn(report.errors, field) = 1
          /\ CountOf(report.errors, formatCode) = 1
          /\ CountOn(report.warnings, field) = 0
          /\ ~report.isValid
    /\ ~(CountOf(report.warnings, absenceCode) > 0 /\ CountOf(report.errors, formatCode) > 0)

\* C17: for the Leitweg-ID and for the seller IBAN each, an empty or
\* whitespace-only value yields one warning and leaves isValid unchanged, a
\* well-formed value yields no message, and a present but malformed value
\* yields exactly one error and makes isValid false; the absence warning and
\* the format error are never reported together for the same field.
C17_OptionalFields ==
    validationResult # None =>
        /\ OptionalFieldRule(
             validationResult[1],
             validateXRechnung([ rechnung EXCEPT !.leitwegId = << "9", "9", "1", "-", "1", "2" >> ],
                               verkaeufer, kaeufer, positionen),
             "rechnung.leitwegId", rechnung.leitwegId, isValidLeitwegId(rechnung.leitwegId),
             "BR-DE-15", "BR-DE-15-FORMAT")
        /\ OptionalFieldRule(
             validationResult[1],
             validateXRechnung(rechnung, [ verkaeufer EXCEPT !.iban = exampleVerkaeufer.iban ],
                               kaeufer, positionen),
             "verkaeufer.iban", verkaeufer.iban, isValidIBAN(verkaeufer.iban),
             "INFO-BT84", "BR-DE-19")

\* a malformed IBAN has been validated on a document without Leitweg-ID: the
\* error BR-DE-19 without the warning INFO-BT84, and the warning BR-DE-15
C17_Witness ==
    /\ validationResult # None
    /\ verkaeufer.iban = << "D", "E", "1", "2" >>
    /\ CountOf(validationResult[1].errors, "BR-DE-19") = 1
    /\ CountOf(validationResult[1].warnings, "INFO-BT84") = 0
    /\ CountOf(validationResult[1].warnings, "BR-DE-15") = 1
    /\ ~validationResult[1].isValid

\* C20: both generators write the payment-means block (type code 58) exactly
\* when the seller IBAN is present, and whenever the block is written the
\* IBAN in it is non-empty and contains no whitespace; the BIC is written
\* inside the block exactly when a BIC is present.
C20_PaymentMeans ==
    /\ xrechnungXML # None =>
         LET means == xrechnungXML[1].PaymentMeans IN
         /\ means # << >> <=> verkaeufer.iban # << >>
         /\ \A m \in Range(means) :
               /\ m.PaymentMeansCode = "58"
               /\ m.ID # << >>
               /\ \A i \in DOMAIN m.ID : ~IsSpace(m.ID[i])
               /\ "FinancialInstitutionBranch" \in DOMAIN m <=> verkaeufer.bic # << >>
    /\ zugferdXML # None =>
         LET means == zugferdXML[1].PaymentMeans IN
         /\ means # << >> <=> verkaeufer.iban # << >>
         /\ \A m \in Range(means) :
               /\ m.TypeCode = "58"
               /\ m.IBANID # << >>
               /\ \A i \in DOMAIN m.IBANID : ~IsSpace(m.IBANID[i])
               /\ m.BICID # << >> <=> verkaeufer.bic # << >>

\* a line breaks the rule of a per-line code
Offends(pos, code) ==
    CASE code = "BR-22" -> pos.menge <= 0
      [] code = "BR-26" -> pos.preis < 0
      [] code = "BR-25" -> Blank(pos.bezeichnung)
      [] code = "BR-CO-04" -> pos.ust \notin { 0, 7, 19 }

\* the field of a line a per-line code is about
FieldOfCode(code) ==
    CASE code = "BR-22" -> "menge"
      [] code = "BR-26" -> "preis"
      [] code = "BR-25" -> "bezeichnung"
      [] code = "BR-CO-04" -> "ust"

\* C21: for every per-line validation message, the index in its field path
\* positionen.<index>.<field> is the position (from 0) of the offending line
\* in the list of line items of the form, also when incomplete lines precede
\* that line.
C21_MessageIndexIsListIndex ==
    validationResult # None =>
        \A m \in Range(validationResult[1].errors \o validationResult[1].warnings) :
            m.code \in PerLineCodes =>
                \E i \in DOMAIN positionen :
                    /\ m.field = positionField(i - 1, FieldOfCode(m.code))
                    /\ Offends(positionen[i], m.code)

(***************************************************************************)
(* What the specification says about exporting                             *)
(***************************************************************************)

EInvoiceKinds == { "copyXML", "downloadXML", "downloadZUGFeRD" }

\* C2: XRechnung XML or a ZUGFeRD PDF is handed to the user (downloadXML,
\* copyXML, downloadZUGFeRD) only if validateXRechnung on the exported form
\* returns isValid = true.
C2_ExportOnlyIfValid ==
    lastExport # None /\ lastExport[1].kind \in EInvoiceKinds =>
        LET d == lastExport[1].data
        IN validateXRechnung(d.rechnung, d.verkaeufer, d.kaeufer, d.positionen).isValid

\* C3: no XRechnung or ZUGFeRD export is performed while the document is an
\* offer.
C3_NoEInvoiceForOffers ==
    lastExport # None /\ lastExport[1].documentType = "offer" =>
        lastExport[1].kind \notin EInvoiceKinds

\* a ZUGFeRD export is in progress and this step ends it
ZUGFeRDJobEnds ==
    /\ pdfJob # None
    /\ pdfJob[1].kind = "downloadZUGFeRD"
    /\ pdfJob' = None

\* C18: when createZUGFeRDPDF fails, downloadZUGFeRD triggers no download and
\* reports the 'export failed' outcome, which differs from the outcome
\* reported for an invalid form; a file is offered for download only after
\* createZUGFeRDPDF has completed successfully.
C18_FailedExport ==
    [][ /\ ZUGFeRDJobEnds =>
             \/ lastExport' = None /\ toast' = "ZUGFeRD-Erstellung fehlgeschlagen"
             \/ lastExport' = pdfJob /\ toast' = "ZUGFeRD-PDF wurde erstellt"
        /\ toast' = "ZUGFeRD-Erstellung fehlgeschlagen" => ZUGFeRDJobEnds /\ lastExport' = None
        /\ toast' = "Bitte alle Pflichtfelder ausfuellen" => pdfJob' = pdfJob /\ lastExport' = None
        /\ lastExport' # None /\ lastExport'[1].kind = "downloadZUGFeRD" =>
             ZUGFeRDJobEnds /\ toast' = "ZUGFeRD-PDF wurde erstellt" ]_vars

\* a ZUGFeRD export has just failed: the toast says so and no file was offered
C18_Witness ==
    /\ toast = "ZUGFeRD-Erstellung fehlgeschlagen"
    /\ lastExport = None
    /\ pdfJob = None
    /\ ~isGeneratingPdf
    /\ attemptedExport

(***************************************************************************)
(* What the specification says about the due date                          *)
(***************************************************************************)

\* the date a number of calendar days after a date YYYY-MM-DD
CalendarDaysAfter(dateStr, days) ==
    formatISODate(normalizeDate(parseNat(SubSeq(dateStr, 1, 4)),
                                parseNat(SubSeq(dateStr, 6, 7)),
                                parseNat(SubSeq(dateStr, 9, 10)) + days))

\* C19: as long as the user has not edited the due date, after every change
\* of the issue date (to a date) the due date equals the issue date + 14
\* calendar days; once the user has edited the due date, later changes of the
\* issue date leave the due date unchanged until the form is reset.
C19_DueDateFollowsIssueDate ==
    [][ rechnung'.datum # rechnung.datum /\ rechnung'.datum # << >> =>
          /\ ~faelligkeitManuallySet' =>
                rechnung'.faelligkeit = CalendarDaysAfter(rechnung'.datum, 14)
          /\ faelligkeitManuallySet /\ faelligkeitManuallySet' =>
                rechnung'.faelligkeit = rechnung.faelligkeit ]_vars

(***************************************************************************)
(* What the specification says about the archive                           *)
(***************************************************************************)

\* C7: the archive never holds two records with the same invoiceNumber.
C7_UniqueInvoiceNumbers ==
    \A a, b \in invoices : a.invoiceNumber = b.invoiceNumber => a.id = b.id

\* C22: a user without a license never has more than invoicesPerMonth
\* invoices counted or stored for the month, whatever the order in which
\* saveToArchive calls start and finish, and a user with a license is never
\* sent to the upgrade modal for the invoice limit
C22_LimitUnderOverlap ==
    /\ ~isPro => /\ invoicesCreated <= invoicesPerMonth
                 /\ Cardinality({ inv \in invoices : inv.documentType = "invoice" })
                        <= invoicesPerMonth
    /\ isPro => upgradeModal # "invoice-limit"

\* C23: the form is in offer mode only while a license is active
C23_OfferModeNeedsLicense == documentType = "offer" => isPro

\* C24: within one year, every call of generateInvoiceNumber that returns
\* raises lastNumber by exactly one and returns a number other than the one
\* the call before it returned (which the form holds), also when the calls
\* overlap
C24_DistinctNumbersUnderOverlap ==
    [][ \A i \in DOMAIN inFlight :
          finishGenerateInvoiceNumber(i) /\ numberSettings[1].lastYear = currentYear =>
              /\ numberSettings'[1].lastNumber = numberSettings[1].lastNumber + 1
              /\ rechnung'.nummer # rechnung.nummer ]_vars

\* C25: a step that shows the preview of getNextInvoiceNumber (a new
\* document) leaves the settings row as it is, and generateInvoiceNumber
\* called right after it returns the very number shown; the row then records
\* number 1 where resetOnYearChange is set and the row is from another year,
\* and lastNumber + 1 otherwise
C25_PreviewIsNextNumber ==
    [][ /\ toast' = "Neues Dokument erstellt" =>
              /\ numberSettings' = numberSettings
              /\ rechnung'.nummer = getNextInvoiceNumber
        /\ toast = "Neues Dokument erstellt" /\ autoGenerateNumber =>
              /\ rechnung'.nummer = rechnung.nummer
              /\ numberSettings'[1].lastNumber =
                    (IF numberSettings = None THEN 1
                     ELSE IF numberSettings[1].resetOnYearChange
                             /\ numberSettings[1].lastYear # currentYear THEN 1
                     ELSE numberSettings[1].lastNumber + 1) ]_vars

\* a new document was opened on a row of last year that asks for the restart,
\* and the preview shows number 1 again
C25_Witness ==
    /\ toast = "Neues Dokument erstellt"
    /\ numberSettings # None
    /\ numberSettings[1].resetOnYearChange
    /\ numberSettings[1].lastYear = currentYear - 1
    /\ numberSettings[1].lastNumber = 1
    /\ rechnung.nummer = formatNumber(numberSettings[1], 1)

\* C26: with unsaved changes, loadFromArchive leaves the form, the document
\* type and the current record as they are and only raises the warning for
\* the record asked for; while the warning is up, the form is replaced by no
\* step other than confirmLoadFromArchive
C26_LoadAsksFirst ==
    [][ /\ \A invoice \in invoices :
              hasUnsavedChanges /\ loadFromArchive(invoice) =>
                  /\ UNCHANGED << rechnung, verkaeufer, kaeufer, positionen, documentType,
                                  currentInvoiceId >>
                  /\ showUnsavedWarning' = Some(invoice)
        /\ showUnsavedWarning # None
              /\ << formVars, documentType, currentInvoiceId >>' #
                    << formVars, documentType, currentInvoiceId >> =>
                  confirmLoadFromArchive ]_vars

\* the warning is up for a record other than the form, whose changes are
\* unsaved
C26_Witness ==
    /\ hasUnsavedChanges
    /\ showUnsavedWarning # None
    /\ showUnsavedWarning[1].data.rechnung # rechnung
    /\ currentInvoiceId # Some(showUnsavedWarning[1].id)

\* the form holds what the record it was saved to or loaded from holds, or,
\* with no such record, what the page started with
FormAsLastStored ==
    \/ /\ currentInvoiceId # None
       /\ \E inv \in invoices : inv.id = currentInvoiceId[1] /\ inv.data = invoiceData
    \/ /\ currentInvoiceId = None
       /\ InitForm

\* C27: hasUnsavedChanges is true only when the form differs from the
\* document last saved or loaded (after the initial load: from the form the
\* page started with); the auto-save timer alone never makes it true
C27_UnsavedOnlyAfterEdit == hasUnsavedChanges => ~FormAsLastStored

\* C28: the step that loads a stored document (loadFromArchive without
\* unsaved changes, or confirmLoadFromArchive) leaves the form with the due
\* date stored in that document
C28_LoadedDueDateKept ==
    [][ \A invoice \in invoices :
          \/ ~hasUnsavedChanges /\ loadFromArchive(invoice)
          \/ showUnsavedWarning = Some(invoice) /\ confirmLoadFromArchive
          => rechnung'.faelligkeit = invoice.data.rechnung.faelligkeit ]_vars

\* C29: whenever isGeneratingPdf is true it becomes false again, whether
\* the export succeeds or fails, and the step that rejects an export for an
\* invalid form leaves isGeneratingPdf false
C29_ExportButtonComesBack ==
    /\ isGeneratingPdf ~> ~isGeneratingPdf
    /\ [][ toast' = "Bitte alle Pflichtfelder ausfuellen" =>
              ~isGeneratingPdf' /\ pdfJob' = None ]_vars

\* a PDF export has failed and the flag is down again
C29_Witness ==
    /\ toast = "PDF-Erstellung fehlgeschlagen"
    /\ ~isGeneratingPdf
    /\ pdfJob = None

\* the cents an amount written with 2 decimals stands for
WrittenCents(text) ==
    parseNat(SubSeq(text, 1, Len(text) - 3) \o SubSeq(text, Len(text) - 1, Len(text)))

\* the sum of the amounts written in a list
RECURSIVE WrittenSum(_)
WrittenSum(texts) ==
    IF texts = << >> THEN 0 ELSE WrittenCents(Head(texts)) + WrittenSum(Tail(texts))

\* C30: in the document of either generator the total tax amount as written
\* equals the sum of the tax amounts written in the tax breakdown
C30_TaxTotalIsSumOfBreakdown ==
    /\ xrechnungXML # None =>
         WrittenCents(xrechnungXML[1].TaxTotal.TaxAmount)
           = WrittenSum([ i \in DOMAIN xrechnungXML[1].TaxTotal.TaxSubtotals |->
                            xrechnungXML[1].TaxTotal.TaxSubtotals[i].TaxAmount ])
    /\ zugferdXML # None =>
         WrittenCents(zugferdXML[1].MonetarySummation.TaxTotalAmount)
           = WrittenSum([ i \in DOMAIN zugferdXML[1].ApplicableTradeTax |->
                            zugferdXML[1].ApplicableTradeTax[i].CalculatedAmount ])

====
